---- MODULE Spec2Model ----
(***************************************************************************)
(* Package loading, override merging, style base chains and item           *)
(* version/style completion of src/src/packageLoader.py.                   *)
(*                                                                         *)
(* Identifiers (object ids, style ids, slot keys) are tuples of character  *)
(* codes, so that str.casefold() is computed and not assumed.  The empty   *)
(* tuple stands for Python's None / the empty string.                      *)
(***************************************************************************)
EXTENDS Integers, Sequences, FiniteSets, TLC

VARIABLES
    packages,      \* the packages dict, in discovery order
    all_obj,       \* all_obj[type]: ordered dict  id -> ObjData
    obj_override,  \* obj_override[type]: ordered dict  id -> list of ParseData
    objs,          \* the objects cls.parse has created, per type, in creation order
    id_to_obj,     \* cls._id_to_obj per type: ordered dict  casefold(id) -> object (an index into objs[type])
    data,          \* data[type]: the list of loaded objects (indices into objs[type])
    pc,            \* position in load_packages / setup_style_tree
    pos,           \* loop cursor of the current phase
    base,          \* local 'base' of the chain loop in setup_style_tree
    b_style,       \* local 'b_style' of the chain loop in setup_style_tree
    err,           \* the exception that aborted the load, if any
    heap,          \* the mutable objects ItemVariants refer to, by reference (an index)
    variants,      \* the ItemVariant objects created so far
    calls,         \* the ItemVariant method calls made so far
    pal_list,      \* the palette selection handed to Item.export
    exported,      \* the editor block Item._get_export_data returned
    log,           \* the warnings the last export query logged
    selected,      \* the style and the versions selected for Item.export
    PACK_CONFIG,   \* the persisted package configuration: section -> option -> string
    mtime          \* st_mtime of the archive of every package, in half seconds

\* The variables of the package loader and those of the item variants and
\* their export.
loadVars == <<packages, all_obj, obj_override, objs, id_to_obj, data, pos, base, b_style>>

packVars == <<PACK_CONFIG, mtime>>

variantVars == <<heap, variants, calls, pal_list, exported, log, selected, packVars>>

vars == <<loadVars, pc, err, variantVars>>

\* No ItemVariant method is being exercised.
NoVariants ==
    /\ heap = <<>>
    /\ variants = <<>>
    /\ calls = <<>>
    /\ pal_list = <<>>
    /\ exported = <<>>
    /\ log = <<>>
    /\ selected = <<>>
    /\ PACK_CONFIG = <<>>
    /\ mtime = <<>>

(***************************************************************************)
(* Bounds of the model.                                                     *)
(***************************************************************************)
\* Declared style slots of the version of a single-version item.
MaxSlots == 2
\* Declared style slots of the default version of a two-version item.
MaxDefSlots == 1
\* Declared style slots of the second version of a two-version item.
MaxOtherSlots == 1
\* Item folders (concrete definitions) an item can refer to.
NumFolders == 2

(***************************************************************************)
(* Identifiers.                                                             *)
(***************************************************************************)
None == <<>>
Root == <<82>>
Mid == <<77>>
Leaf == <<76>>
Unknown == <<85>>
IdA == <<65>>
Ida == <<97>>
IdB == <<66>>
VerDefault == <<86, 48>>
VerOther == <<86, 49>>

StyleNames == {Root, Mid, Leaf}

\* str.casefold() on ASCII identifiers.
casefold(s) == [i \in DOMAIN s |-> IF s[i] \in 65..90 THEN s[i] + 32 ELSE s[i]]

(***************************************************************************)
(* Python dicts keep insertion order: a dict is a sequence of <<key,       *)
(* value>> pairs with distinct keys.                                       *)
(***************************************************************************)
HasKey(d, k) == \E i \in DOMAIN d : d[i][1] = k

Get(d, k) == d[CHOOSE i \in DOMAIN d : d[i][1] = k][2]

Put(d, k, v) ==
    IF HasKey(d, k)
    THEN [i \in DOMAIN d |-> IF d[i][1] = k THEN <<k, v>> ELSE d[i]]
    ELSE Append(d, <<k, v>>)

InSeq(x, s) == \E i \in DOMAIN s : s[i] = x

ObjTypes == <<"Style", "Item", "ItemConfig">>

TypeSet == {ObjTypes[i] : i \in DOMAIN ObjTypes}

allow_mult(t) == t = "ItemConfig"

\* An exception, with the values its message is formatted from: the object
\* id, the style, the referenced name and the package.
NoErr == [kind |-> "none", obj |-> None, sty |-> None, ref |-> None, pak |-> None]

Raise(kind, obj, sty, ref) == [kind |-> kind, obj |-> obj, sty |-> sty, ref |-> ref, pak |-> None]

(***************************************************************************)
(* Values of a style slot of a version.                                     *)
(*   variant: an ItemVariant, arg = the info block and item folder it was  *)
(*            read from, mods = the modify() calls that derived it, over = *)
(*            the variants merged into it by override_from_folder          *)
(*   alias:   Property(None, ref), arg = the referenced style name         *)
(*   delta:   a Property block with children, arg = its 'base' value,      *)
(*            name = the key it was declared under                         *)
(*   name / none: the def_style of a version before it is fixed up         *)
(***************************************************************************)
Variant(folder) ==
    [kind |-> "variant", arg |-> folder, name |-> None, mods |-> <<>>, over |-> <<>>,
     authors |-> <<folder>>, tags |-> <<folder>>, vbsp_config |-> <<folder>>]

\* A style entry of an item's info block that names an item folder.
Folder(f) == [kind |-> "folder", arg |-> f, name |-> None, mods |-> <<>>, over |-> <<>>,
     authors |-> <<>>, tags |-> <<>>, vbsp_config |-> <<>>]

Alias(ref) == [kind |-> "alias", arg |-> ref, name |-> None, mods |-> <<>>, over |-> <<>>,
     authors |-> <<>>, tags |-> <<>>, vbsp_config |-> <<>>]

Delta(key, b) == [kind |-> "delta", arg |-> b, name |-> key, mods |-> <<>>, over |-> <<>>,
     authors |-> <<>>, tags |-> <<>>, vbsp_config |-> <<>>]

StyleName(key) == [kind |-> "name", arg |-> key, name |-> None, mods |-> <<>>, over |-> <<>>,
     authors |-> <<>>, tags |-> <<>>, vbsp_config |-> <<>>]

NoStyle == [kind |-> "none", arg |-> None, name |-> None, mods |-> <<>>, over |-> <<>>,
     authors |-> <<>>, tags |-> <<>>, vbsp_config |-> <<>>]

\* ItemVariant.modify(props, source): a new variant derived from self.
modify(self, props, source) ==
    [kind |-> "variant", arg |-> self.arg, name |-> None, over |-> self.over,
     authors |-> self.authors, tags |-> self.tags, vbsp_config |-> self.vbsp_config,
     mods |-> Append(self.mods, [props |-> props.name, base |-> props.arg, source |-> source])]

(***************************************************************************)
(* Views of the registry.                                                   *)
(***************************************************************************)
\* cls.all(): the registered objects of a type, as indices into objs[type].
All(t) == [i \in DOMAIN id_to_obj[t] |-> id_to_obj[t][i][2]]

\* The local all_styles dict of setup_style_tree: style.id -> Style.
RECURSIVE BuildAllStyles(_, _)
BuildAllStyles(refs, acc) ==
    IF refs = <<>> THEN acc
    ELSE BuildAllStyles(Tail(refs), Put(acc, objs["Style"][Head(refs)].id, Head(refs)))

all_styles == BuildAllStyles(All("Style"), <<>>)

StyleObj(sid) == objs["Style"][Get(all_styles, sid)]

\* all_styles.get(key, None), as the id of the style found
StyleGet(key) == IF HasKey(all_styles, key) THEN key ELSE None

(***************************************************************************)
(* setup_style_tree, part 1: the ancestor chain of every style.            *)
(***************************************************************************)
\* Where setup_style_tree continues once the item at position i is reached.
ItemsEntry(i) ==
    IF i <= Len(All("Item"))
    THEN [pc |-> "first", pos |-> <<i, 1>>, base |-> <<>>, b_style |-> None]
    ELSE [pc |-> "done", pos |-> <<0, 0>>, base |-> <<>>, b_style |-> None]

\* Where setup_style_tree continues once the style at position k is reached:
\* base = [] and b_style = style, or the item loop after the last style.
StylesEntry(k) ==
    IF k <= Len(all_styles)
    THEN [pc |-> "walk", pos |-> <<k, 0>>, base |-> <<>>, b_style |-> all_styles[k][1]]
    ELSE ItemsEntry(1)

\* Mutant of Revisited: only a return to the first style of the walk counts.
RevisitedStart(b, seen) == seen # <<>> /\ b = seen[1]

\* 'b_style in base': has the walk already visited b_style?
Revisited(b, seen) == InSeq(b, seen)

\* Mutant of Visit: the style is put in front of the chain.
VisitFront(seen, b) == <<b>> \o seen

\* base.append(b_style)
Visit(seen, b) == Append(seen, b)

\* One iteration of 'while b_style is not None', with the assignment of
\* style.bases when the loop exits.
WalkStep ==
    /\ UNCHANGED variantVars
    /\ pc = "walk"
    /\ IF Revisited(b_style, base)
       THEN /\ pc' = "failed"
            /\ err' = Raise("loop", b_style, None, None)
            /\ UNCHANGED <<objs, pos, base, b_style>>
       ELSE LET nbase == Visit(base, b_style)
                nxt == StyleGet(StyleObj(b_style).base_style)
                cur == Get(all_styles, all_styles[pos[1]][1])
                to == StylesEntry(pos[1] + 1)
            IN  IF nxt # None
                THEN /\ base' = nbase
                     /\ b_style' = nxt
                     /\ UNCHANGED <<objs, pc, pos, err>>
                ELSE /\ objs' = [objs EXCEPT !["Style"][cur].bases = nbase]
                     /\ pc' = to.pc
                     /\ pos' = to.pos
                     /\ base' = to.base
                     /\ b_style' = to.b_style
                     /\ UNCHANGED err
    /\ UNCHANGED <<packages, all_obj, obj_override, id_to_obj, data>>

(***************************************************************************)
(* setup_style_tree, part 2: every version of every item gets a slot for   *)
(* every style.                                                            *)
(***************************************************************************)
\* item.def_ver: the first version the item declares.
def_ver(item) == item.versions[item.def_ver]

\* all_ver: the versions with the default version moved to the front.
AllVer(item) ==
    <<item.def_ver>> \o SelectSeq([i \in DOMAIN item.versions |-> i],
                                  LAMBDA i : i # item.def_ver)

Min(S) == CHOOSE x \in S : \A y \in S : x <= y

\* Mutant of FindBase: the farthest ancestor with a slot wins.
FindBaseFarthest(bases, styles) ==
    LET hits == {i \in DOMAIN bases : HasKey(styles, bases[i])}
    IN  IF hits = {} THEN 0 ELSE CHOOSE x \in hits : \A y \in hits : x >= y

\* 'for base_style in style.bases: if base_style.id in vers["styles"]':
\* the position in bases of the style whose slot is copied, 0 for none.
FindBase(bases, styles) ==
    LET hits == {i \in DOMAIN bases : HasKey(styles, bases[i])}
    IN  IF hits = {} THEN 0 ELSE Min(hits)

\* The body of 'for sty_id, style in all_styles.items()' for one style.
FillOne(styles, sty, vers, item) ==
    LET bases == StyleObj(sty).bases
        hit == FindBase(bases, styles)
        dstyles == def_ver(item).styles
    IN  IF HasKey(styles, sty) THEN [err |-> NoErr, styles |-> styles]
        ELSE IF hit # 0
        THEN [err |-> NoErr, styles |-> Put(styles, sty, Get(styles, bases[hit]))]
        ELSE IF vers.id = def_ver(item).id
        THEN IF vers.def_style.kind = "name" /\ HasKey(styles, vers.def_style.arg)
             THEN [err |-> NoErr,
                   styles |-> Put(styles, sty, Get(styles, vers.def_style.arg))]
             ELSE [err |-> Raise("KeyError", item.id, sty, vers.def_style.arg),
                   styles |-> styles]
        ELSE IF HasKey(dstyles, sty)
             THEN [err |-> NoErr, styles |-> Put(styles, sty, Get(dstyles, sty))]
             ELSE [err |-> Raise("KeyError", item.id, sty, sty), styles |-> styles]

\* 'for sty_id, style in all_styles.items()' from position k on.
RECURSIVE FillStyles(_, _, _, _)
FillStyles(styles, k, vers, item) ==
    IF k > Len(all_styles) THEN [err |-> NoErr, styles |-> styles]
    ELSE LET r == FillOne(styles, all_styles[k][1], vers, item)
         IN  IF r.err.kind # "none" THEN r
             ELSE FillStyles(r.styles, k + 1, vers, item)

\* The item and version the cursor is at.
CurItemRef == All("Item")[pos[1]]

CurItem == objs["Item"][CurItemRef]

CurVerIdx == AllVer(CurItem)[pos[2]]

CurVer == CurItem.versions[CurVerIdx]

\* The first loop of the body of 'for vers in all_ver'.
FirstPass ==
    /\ UNCHANGED variantVars
    /\ pc = "first"
    /\ LET r == FillStyles(CurVer.styles, 1, CurVer, CurItem)
       IN  IF r.err.kind # "none"
           THEN /\ pc' = "failed"
                /\ err' = r.err
                /\ UNCHANGED objs
           ELSE /\ pc' = "second"
                /\ objs' = [objs EXCEPT !["Item"][CurItemRef].versions[CurVerIdx].styles = r.styles]
                /\ UNCHANGED err
    /\ UNCHANGED <<packages, all_obj, obj_override, id_to_obj, data, pos, base, b_style>>

\* The body of 'for sty_id, props in vers["styles"].items()' for slot i.
EvalSlot(styles, lookups, i, vers, item) ==
    LET sty == styles[i][1]
        props == styles[i][2]
    IN  IF props.kind = "variant"
        THEN [err |-> NoErr, styles |-> styles, lookups |-> lookups]
        ELSE IF props.kind = "alias"
        THEN [err |-> NoErr, styles |-> styles, lookups |-> Put(lookups, sty, props.arg)]
        ELSE IF props.arg = None
        THEN [err |-> Raise("No base", item.id, sty, None),
              styles |-> styles, lookups |-> lookups]
        ELSE IF ~HasKey(styles, props.arg)
        THEN [err |-> Raise("Invalid style base", item.id, sty, props.arg),
              styles |-> styles, lookups |-> lookups]
        ELSE IF Get(styles, props.arg).kind # "variant"
        THEN [err |-> Raise("AttributeError", item.id, sty, props.arg),
              styles |-> styles, lookups |-> lookups]
        ELSE [err |-> NoErr,
              styles |-> Put(styles, sty,
                             modify(Get(styles, props.arg), props, <<item.id, vers.id, sty>>)),
              lookups |-> lookups]

\* 'for sty_id, props in vers["styles"].items()' from slot i on.
RECURSIVE EvalSlots(_, _, _, _, _)
EvalSlots(styles, lookups, i, vers, item) ==
    IF i > Len(styles) THEN [err |-> NoErr, styles |-> styles, lookups |-> lookups]
    ELSE LET r == EvalSlot(styles, lookups, i, vers, item)
         IN  IF r.err.kind # "none" THEN r
             ELSE EvalSlots(r.styles, r.lookups, i + 1, vers, item)

\* Mutant of EvalLookup: a reference to a missing slot is skipped.
EvalLookupSkip(styles, to_id, from_id, item) ==
    IF HasKey(styles, from_id)
    THEN [err |-> NoErr, styles |-> Put(styles, to_id, Get(styles, from_id))]
    ELSE [err |-> NoErr, styles |-> styles]

\* The body of 'for to_id, from_id in style_lookups.items()' for one entry.
EvalLookup(styles, to_id, from_id, item) ==
    IF HasKey(styles, from_id)
    THEN [err |-> NoErr, styles |-> Put(styles, to_id, Get(styles, from_id))]
    ELSE [err |-> Raise("Invalid style reference", item.id, to_id, from_id),
          styles |-> styles]

\* 'for to_id, from_id in style_lookups.items()' from entry i on.
RECURSIVE EvalLookups(_, _, _, _)
EvalLookups(styles, lookups, i, item) ==
    IF i > Len(lookups) THEN [err |-> NoErr, styles |-> styles]
    ELSE LET r == EvalLookup(styles, lookups[i][1], lookups[i][2], item)
         IN  IF r.err.kind # "none" THEN r
             ELSE EvalLookups(r.styles, lookups, i + 1, item)

\* vers['def_style'] = vers['styles'][vers['def_style']]
FixDefStyle(styles, vers, item) ==
    IF vers.def_style.kind = "name" /\ HasKey(styles, vers.def_style.arg)
    THEN [err |-> NoErr, def_style |-> Get(styles, vers.def_style.arg)]
    ELSE [err |-> Raise("KeyError", item.id, None, vers.def_style.arg),
          def_style |-> vers.def_style]

\* The rest of the body of 'for vers in all_ver': modifications, style
\* lookups and the default style.
ResolveVersion(vers, item) ==
    LET r1 == EvalSlots(vers.styles, <<>>, 1, vers, item)
        r2 == EvalLookups(r1.styles, r1.lookups, 1, item)
        r3 == FixDefStyle(r2.styles, vers, item)
    IN  IF r1.err.kind # "none" THEN [err |-> r1.err, vers |-> vers]
        ELSE IF r2.err.kind # "none" THEN [err |-> r2.err, vers |-> vers]
        ELSE IF r3.err.kind # "none" THEN [err |-> r3.err, vers |-> vers]
        ELSE [err |-> NoErr,
              vers |-> [vers EXCEPT !.styles = r2.styles, !.def_style = r3.def_style]]

\* Where the item loop continues after the version at the cursor.
AfterVersion ==
    IF pos[2] < Len(AllVer(CurItem))
    THEN [pc |-> "first", pos |-> <<pos[1], pos[2] + 1>>]
    ELSE [pc |-> ItemsEntry(pos[1] + 1).pc, pos |-> ItemsEntry(pos[1] + 1).pos]

SecondPass ==
    /\ UNCHANGED variantVars
    /\ pc = "second"
    /\ LET r == ResolveVersion(CurVer, CurItem)
       IN  IF r.err.kind # "none"
           THEN /\ pc' = "failed"
                /\ err' = r.err
                /\ UNCHANGED <<objs, pos>>
           ELSE /\ pc' = AfterVersion.pc
                /\ pos' = AfterVersion.pos
                /\ objs' = [objs EXCEPT !["Item"][CurItemRef].versions[CurVerIdx] = r.vers]
                /\ UNCHANGED err
    /\ UNCHANGED <<packages, all_obj, obj_override, id_to_obj, data, base, b_style>>

(***************************************************************************)
(* Parsing of the objects found in the packages.                           *)
(***************************************************************************)
\* An info block of a package: the base style of a Style, the version
\* blocks of an Item, and the config the block carries.
Info(b, versions, conf) == [base |-> b, versions |-> versions, conf |-> conf, name |-> conf]

\* The same block without a 'name' key.
Unnamed(info) == [info EXCEPT !.name = None]

ParseData(id, info, pak_id, is_override) ==
    [id |-> id, info |-> info, pak_id |-> pak_id, is_override |-> is_override]

\* Item.parse, one version block: folder names become the ItemVariant
\* parse_item_folder read from that folder, the first style is the default.
ParseVersion(ver, conf) ==
    [id |-> ver.id,
     styles |-> [i \in DOMAIN ver.styles |->
                    <<ver.styles[i][1],
                      IF ver.styles[i][2].kind = "folder"
                      THEN Variant(<<conf, ver.styles[i][2].arg>>)
                      ELSE ver.styles[i][2]>>],
     def_style |-> IF ver.styles = <<>> THEN NoStyle
                   ELSE StyleName(ver.styles[1][1])]

\* cls.parse(data) of the three object types.
Parse(t, pd) ==
    [id |-> pd.id,
     pak_id |-> pd.pak_id,
     conf |-> <<pd.info.conf>>,
     name |-> IF t = "Style" THEN pd.info.name ELSE None,
     base_style |-> IF t = "Style" THEN pd.info.base ELSE None,
     bases |-> <<>>,
     versions |-> IF t = "Item"
                  THEN [i \in DOMAIN pd.info.versions |->
                            ParseVersion(pd.info.versions[i], pd.info.conf)]
                  ELSE <<>>,
     def_ver |-> 1]

\* The exception cls.parse raises: Item.parse raises ValueError for an item
\* without versions, get_selitem_data raises IndexError from info['name']
\* for a style block without a name.
ParseError(t, pd) ==
    IF t = "Item" /\ pd.info.versions = <<>> THEN "ValueError"
    ELSE IF t = "Style" /\ pd.info.name = None THEN "IndexError"
    ELSE "none"

ParseRaises(t, pd) == ParseError(t, pd) # "none"

EmptyByType == [t \in TypeSet |-> <<>>]

(***************************************************************************)
(* parse_package: the objects and overrides one package declares.          *)
(***************************************************************************)
ObjData(info, pak_id) == [info_block |-> info, pak_id |-> pak_id]

\* pack.info.find_all("Overrides", comp_type) / pack.info.find_all(comp_type)
FindAll(entries, sect, t) == SelectSeq(entries, LAMBDA e : e.sect = sect /\ e.type = t)

\* The blocks of a package in the order parse_package reads them: type by
\* type, the overrides of a type before its objects.
RECURSIVE ScanOrder(_, _)
ScanOrder(entries, ti) ==
    IF ti > Len(ObjTypes) THEN <<>>
    ELSE FindAll(entries, "over", ObjTypes[ti]) \o FindAll(entries, "obj", ObjTypes[ti])
         \o ScanOrder(entries, ti + 1)

\* obj_override[comp_type][obj_id].append(ParseData(...)) on a defaultdict
Queue(oo, t, id, pd) ==
    [oo EXCEPT ![t] = Put(@, id, Append(IF HasKey(@, id) THEN Get(@, id) ELSE <<>>, pd))]

\* The body of the two loops of parse_package for one block.
ScanEntry(st, e, pack) ==
    LET over == ParseData(e.id, e.info, pack.id, TRUE)
    IN  IF e.sect = "over"
        THEN [st EXCEPT !.obj_override = Queue(@, e.type, e.id, over)]
        ELSE IF HasKey(st.all_obj[e.type], e.id)
        THEN IF allow_mult(e.type)
             THEN [st EXCEPT !.obj_override = Queue(@, e.type, e.id, over)]
             ELSE [st EXCEPT !.err = Raise("defined twice", e.id, None, None)]
        ELSE [st EXCEPT !.all_obj[e.type] = Put(@, e.id, ObjData(e.info, pack.id))]

RECURSIVE ScanEntries(_, _, _)
ScanEntries(st, es, pack) ==
    IF es = <<>> \/ st.err.kind # "none" THEN st
    ELSE ScanEntries(ScanEntry(st, Head(es), pack), Tail(es), pack)

\* The values '<TAG_MUSIC>' and '<MEL_MUSIC>' of a prerequisite.
TAG_MUSIC == <<60, 84, 62>>

MEL_MUSIC == <<60, 77, 62>>

\* The arguments has_tag_music and has_mel_music of load_packages, False if
\* they are not given.
has_tag == calls # <<>> /\ calls[1].has_tag_music

has_mel == calls # <<>> /\ calls[1].has_mel_music

PrerequisiteMet(pre) ==
    IF pre = TAG_MUSIC THEN has_tag
    ELSE IF pre = MEL_MUSIC THEN has_mel
    ELSE \E k \in DOMAIN packages : packages[k].id = pre

parse_package(pack, ao, oo) ==
    IF \E i \in DOMAIN pack.prereqs : ~PrerequisiteMet(pack.prereqs[i])
    THEN [err |-> NoErr, all_obj |-> ao, obj_override |-> oo]
    ELSE ScanEntries([err |-> NoErr, all_obj |-> ao, obj_override |-> oo],
                     ScanOrder(pack.entries, 1), pack)

\* Where load_packages continues once the object at position oi of type
\* number ti is reached in 'for obj_type, objs in all_obj.items()'.
RECURSIVE ObjectsEntry(_, _, _)
ObjectsEntry(ti, oi, ao) ==
    IF ti > Len(ObjTypes) THEN [pc |-> "tree", pos |-> <<0, 0>>]
    ELSE IF oi <= Len(ao[ObjTypes[ti]]) THEN [pc |-> "parse", pos |-> <<ti, oi>>]
    ELSE ObjectsEntry(ti + 1, 1, ao)

\* Where load_packages continues once package k is reached in
\* 'for pak_id, pack in packages.items()'.
PackagesEntry(k, ao) ==
    IF k <= Len(packages) THEN [pc |-> "scan", pos |-> <<k, 0>>]
    ELSE ObjectsEntry(1, 1, ao)

\* One iteration of 'for pak_id, pack in packages.items()'.
ScanPackage ==
    /\ UNCHANGED variantVars
    /\ pc = "scan"
    /\ LET pack == packages[pos[1]]
           st == parse_package(pack, all_obj, obj_override)
       IN  IF ~pack.enabled
           THEN /\ pc' = PackagesEntry(pos[1] + 1, all_obj).pc
                /\ pos' = PackagesEntry(pos[1] + 1, all_obj).pos
                /\ UNCHANGED <<all_obj, obj_override, err>>
           ELSE /\ all_obj' = st.all_obj
                /\ obj_override' = st.obj_override
                /\ IF st.err.kind # "none"
                   THEN /\ pc' = "failed"
                        /\ err' = st.err
                        /\ UNCHANGED pos
                   ELSE /\ pc' = PackagesEntry(pos[1] + 1, st.all_obj).pc
                        /\ pos' = PackagesEntry(pos[1] + 1, st.all_obj).pos
                        /\ UNCHANGED err
    /\ UNCHANGED <<packages, objs, id_to_obj, data, base, b_style>>

(***************************************************************************)
(* add_over: merging an override into the object it amends.                *)
(***************************************************************************)
IndexOfVersion(versions, id) ==
    IF \E i \in DOMAIN versions : versions[i].id = id
    THEN CHOOSE i \in DOMAIN versions : versions[i].id = id
    ELSE 0

\* ItemVariant.override_from_folder on the variant object read from folder
\* 'target': every slot of the item that holds that object sees the change.
override_from_folder(versions, target, other) ==
    [v \in DOMAIN versions |->
        [versions[v] EXCEPT !.styles =
            [i \in DOMAIN @ |->
                IF @[i][2].kind = "variant" /\ @[i][2].arg = target
                THEN <<@[i][1], [@[i][2] EXCEPT !.over = Append(@, other.arg),
                                               !.authors = @ \o other.authors,
                                               !.tags = @ \o @,
                                               !.vbsp_config = @ \o other.vbsp_config]>>
                ELSE @[i]]]]

\* The body of 'for sty_id, style in version["styles"].items()' of
\* Item.add_over, for slot i of the override's version.
MergeSlot(st, vi, sty_id, style) ==
    LET ours == st.versions[vi].styles
    IN  IF ~HasKey(ours, sty_id)
        THEN [st EXCEPT !.versions[vi].styles = Append(@, <<sty_id, style>>)]
        ELSE IF Get(ours, sty_id).kind = "variant" /\ style.kind = "variant"
        THEN [st EXCEPT !.versions = override_from_folder(@, Get(ours, sty_id).arg, style)]
        ELSE [st EXCEPT !.err = Raise("AttributeError", None, sty_id, None)]

RECURSIVE MergeSlots(_, _, _)
MergeSlots(st, vi, slots) ==
    IF slots = <<>> \/ st.err.kind # "none" THEN st
    ELSE MergeSlots(MergeSlot(st, vi, Head(slots)[1], Head(slots)[2]), vi, Tail(slots))

\* 'for ver_id, version in override.versions.items()' of Item.add_over.
RECURSIVE MergeVersions(_, _)
MergeVersions(st, overs) ==
    IF overs = <<>> \/ st.err.kind # "none" THEN st
    ELSE LET version == Head(overs)
             vi == IndexOfVersion(st.versions, version.id)
         IN  IF vi = 0
             THEN MergeVersions([st EXCEPT !.versions = Append(@, version)], Tail(overs))
             ELSE MergeVersions(MergeSlots(st, vi, version.styles), Tail(overs))

\* join_selitem_data, the display name: ours is kept.
join_selitem_data(our_name, over_name) == our_name

\* Mutant of add_over: the override's config replaces the target's.
add_over_replace(t, self, override) ==
    [err |-> NoErr, obj |-> [self EXCEPT !.conf = override.conf]]

\* object_.add_over(override) of the three object types: the override's
\* config is appended, an Item also merges the override's versions.
add_over(t, self, override) ==
    LET merged == [self EXCEPT !.conf = @ \o override.conf,
                               !.name = IF t = "Style" THEN join_selitem_data(@, override.name) ELSE @]
        st == MergeVersions([err |-> NoErr, versions |-> self.versions], override.versions)
    IN  IF t = "Item"
        THEN [err |-> st.err, obj |-> [merged EXCEPT !.versions = st.versions]]
        ELSE [err |-> NoErr, obj |-> merged]

\* 'for override_data in obj_override[obj_type].get(obj_id, [])'
RECURSIVE ApplyOverrides(_, _, _)
ApplyOverrides(t, st, queue) ==
    IF queue = <<>> \/ st.err.kind # "none" THEN st
    ELSE IF ParseRaises(t, Head(queue))
    THEN [st EXCEPT !.err = Raise(ParseError(t, Head(queue)), Head(queue).id, None, None)]
    ELSE ApplyOverrides(t, add_over(t, st.obj, Parse(t, Head(queue))), Tail(queue))

\* obj_override[obj_type].get(obj_id, [])
Overrides(t, id) ==
    IF HasKey(obj_override[t], id) THEN Get(obj_override[t], id) ELSE <<>>

\* One iteration of 'for obj_id, obj_data in objs.items()': the object is
\* parsed, registered under its casefolded id, its overrides are merged and
\* it is appended to data.
ParseObject ==
    /\ UNCHANGED variantVars
    /\ pc = "parse"
    /\ LET t == ObjTypes[pos[1]]
           obj_id == all_obj[t][pos[2]][1]
           obj_data == all_obj[t][pos[2]][2]
           pd == ParseData(obj_id, obj_data.info_block, obj_data.pak_id, FALSE)
           ref == Len(objs[t]) + 1
           st == ApplyOverrides(t, [err |-> NoErr, obj |-> Parse(t, pd)], Overrides(t, obj_id))
           to == ObjectsEntry(pos[1], pos[2] + 1, all_obj)
       IN  IF ParseRaises(t, pd)
           THEN /\ pc' = "failed"
                /\ err' = Raise(ParseError(t, pd), obj_id, None, None)
                /\ UNCHANGED <<objs, id_to_obj, data, pos>>
           ELSE /\ objs' = [objs EXCEPT ![t] = Append(@, st.obj)]
                /\ id_to_obj' = [id_to_obj EXCEPT ![t] = Put(@, casefold(st.obj.id), ref)]
                /\ IF st.err.kind # "none"
                   THEN /\ pc' = "failed"
                        /\ err' = st.err
                        /\ UNCHANGED <<data, pos>>
                   ELSE /\ data' = [data EXCEPT ![t] = Append(@, ref)]
                        /\ pc' = to.pc
                        /\ pos' = to.pos
                        /\ UNCHANGED err
    /\ UNCHANGED <<packages, all_obj, obj_override, base, b_style>>

\* load_packages calls setup_style_tree, which builds all_styles and starts
\* on the first style.
SetupStyleTree ==
    /\ UNCHANGED variantVars
    /\ pc = "tree"
    /\ pc' = StylesEntry(1).pc
    /\ pos' = StylesEntry(1).pos
    /\ base' = StylesEntry(1).base
    /\ b_style' = StylesEntry(1).b_style
    /\ UNCHANGED <<packages, all_obj, obj_override, objs, id_to_obj, data, err>>

(***************************************************************************)
(* Inputs of the style tree: style hierarchies and item declarations.      *)
(***************************************************************************)
DistinctSeqs(S, n) == {s \in [1..n -> S] : \A i, j \in 1..n : s[i] = s[j] => i = j}

\* What a style entry of a version block can say, before its key is known.
SlotChoices ==
    {[kind |-> "folder", arg |-> f] : f \in 1..NumFolders}
    \cup {[kind |-> "alias", arg |-> k] : k \in StyleNames \cup {Unknown}}
    \cup {[kind |-> "delta", arg |-> k] : k \in StyleNames \cup {Unknown, None}}

SlotValue(key, c) ==
    IF c.kind = "folder" THEN Folder(c.arg)
    ELSE IF c.kind = "alias" THEN Alias(c.arg)
    ELSE Delta(key, c.arg)

\* The style maps a version block can declare with at most n entries.
StyleDecls(n) ==
    UNION {{[i \in 1..m |-> <<ks[i], SlotValue(ks[i], cs[i])>>] :
                ks \in DistinctSeqs(StyleNames, m), cs \in [1..m -> SlotChoices]} :
           m \in 0..n}

VersionDecl(id, styles) == [id |-> id, styles |-> styles]

\* Items with one version, and items with a default and a second version.
ItemDecls(slots, def_slots, other_slots) ==
    {<<VersionDecl(VerDefault, s)>> : s \in StyleDecls(slots)}
    \cup {<<VersionDecl(VerDefault, s), VersionDecl(VerOther, t)>> :
             s \in StyleDecls(def_slots), t \in StyleDecls(other_slots)}

\* Items with one version that has one folder slot.
PlainItemDecls ==
    {<<VersionDecl(VerDefault, <<<<k, Folder(1)>>>>)>> : k \in StyleNames}

StyleDecl(id, b) == [id |-> id, base |-> b]

\* Every hierarchy over at most three styles, cyclic ones and ones with
\* unknown bases included, in every enumeration order.
AllHierarchies ==
    UNION {{[i \in 1..m |-> StyleDecl(ids[i], bs[i])] :
                ids \in DistinctSeqs(StyleNames, m),
                bs \in [1..m -> StyleNames \cup {Unknown, None}]} :
           m \in 1..Cardinality(StyleNames)}

\* Root <- Mid <- Leaf in both enumeration orders, and a hierarchy where
\* Leaf is not a loaded style and Mid names a base that is not loaded.
ChainHierarchies ==
    {<<StyleDecl(Root, None), StyleDecl(Mid, Root), StyleDecl(Leaf, Mid)>>,
     <<StyleDecl(Leaf, Mid), StyleDecl(Mid, Root), StyleDecl(Root, None)>>,
     <<StyleDecl(Root, None), StyleDecl(Mid, Unknown)>>}

ItemId == <<73>>
PakId == <<80>>

\* A block of a package's info.txt.
Entry(sect, t, id, info) == [sect |-> sect, type |-> t, id |-> id, info |-> info]

\* A package: its id, its enabled flag, the blocks of its info.txt and the
\* values of its 'Prerequisites' block.
Package(id, enabled, entries) ==
    [id |-> id, enabled |-> enabled, entries |-> entries, prereqs |-> <<>>]

\* The package that declares the given styles and one item with the given
\* versions; the config of block n is tagged <<package, n>>.
TreePackage(styles, versions) ==
    Package(PakId, TRUE,
            [i \in DOMAIN styles |->
                Entry("obj", "Style", styles[i].id, Info(styles[i].base, <<>>, <<PakId, i>>))]
            \o <<Entry("obj", "Item", ItemId, Info(None, versions, <<PakId, 0>>))>>)

\* The objects of a package as ParseObject leaves them when the package
\* has no overrides.
Loaded(pack, t) ==
    LET es == FindAll(pack.entries, "obj", t)
    IN  [i \in DOMAIN es |-> Parse(t, ParseData(es[i].id, es[i].info, pack.id, FALSE))]

\* The state in which load_packages calls setup_style_tree after it has
\* loaded one package.
TreeInit(pack) ==
    /\ packages = <<pack>>
    /\ all_obj = parse_package(pack, EmptyByType, EmptyByType).all_obj
    /\ obj_override = EmptyByType
    /\ objs = [t \in TypeSet |-> Loaded(pack, t)]
    /\ id_to_obj = [t \in TypeSet |->
                        [i \in DOMAIN Loaded(pack, t) |-> <<casefold(Loaded(pack, t)[i].id), i>>]]
    /\ data = [t \in TypeSet |-> [i \in DOMAIN Loaded(pack, t) |-> i]]
    /\ pc = "tree"
    /\ pos = <<0, 0>>
    /\ base = <<>>
    /\ b_style = None
    /\ err = NoErr
    /\ NoVariants

InitTree ==
    \/ \E styles \in AllHierarchies, versions \in PlainItemDecls :
            TreeInit(TreePackage(styles, versions))
    \/ \E styles \in ChainHierarchies,
            versions \in ItemDecls(MaxSlots, MaxDefSlots, MaxOtherSlots) :
            TreeInit(TreePackage(styles, versions))

NextTree == SetupStyleTree \/ WalkStep \/ FirstPass \/ SecondPass

SpecTree == InitTree /\ [][NextTree]_vars

(***************************************************************************)
(* Inputs of load_packages: the packages found on disk.                    *)
(***************************************************************************)
\* Packages load_packages scans.
MaxPaks == 2
\* Blocks in the info.txt files of the packages, all together.
MaxEntries == 3

PakIdOf(k) == <<80, 48 + k>>

\* The info block of a block <<section, type, id>> of info.txt; an Item
\* declares one version with one folder slot for the style A, except the
\* item B, which has no version block.  A fourth element marks a block
\* without a 'name' key.
InfoFor(block, tag) ==
    LET info == Info(None,
                     IF block[2] = "Item" /\ block[3] # IdB
                     THEN <<VersionDecl(VerDefault, <<<<IdA, Folder(1)>>>>)>> ELSE <<>>,
                     tag)
    IN  IF Len(block) = 4 THEN Unnamed(info) ELSE info

\* Styles and item configs, declared with either spelling of the id A, and
\* an override of the style A.
BlockChoices ==
    {<<"obj", "Style", IdA>>, <<"obj", "Style", Ida>>, <<"over", "Style", IdA>>,
     <<"obj", "ItemConfig", IdA>>, <<"obj", "ItemConfig", Ida>>}

\* Items and their overrides; the item B fails to parse.
ItemBlockChoices ==
    {<<"obj", "Item", IdA>>, <<"obj", "Item", Ida>>, <<"over", "Item", IdA>>,
     <<"obj", "Style", IdA>>, <<"obj", "Item", IdB>>}

MakePackage(k, enabled, blocks) ==
    Package(PakIdOf(k), enabled,
            [n \in DOMAIN blocks |->
                Entry(blocks[n][1], blocks[n][2], blocks[n][3],
                      InfoFor(blocks[n], <<PakIdOf(k), n>>))])

BlockSeqs(choices, n) == UNION {[1..m -> choices] : m \in 0..n}

\* The ways to deal m blocks to n packages in order: the package of each
\* block, never before the package of the block before it.
Deals(m, n) == {f \in [1..m -> 1..n] : \A i, j \in 1..m : i <= j => f[i] <= f[j]}

\* The blocks of bs dealt to package k.
DealtTo(bs, owner, k) ==
    LET idx == {i \in DOMAIN bs : owner[i] = k}
        first == IF idx = {} THEN 0 ELSE Min(idx) - 1
    IN  [i \in 1..Cardinality(idx) |-> bs[first + i]]

\* n packages, enabled or not, holding the blocks bs as dealt by owner.
PackageSet(n, en, bs, owner) == [k \in 1..n |-> MakePackage(k, en[k], DealtTo(bs, owner, k))]

ItemPackageSets ==
    {[k \in 1..2 |-> MakePackage(k, TRUE, <<bs[k]>>)] : bs \in [1..2 -> ItemBlockChoices]}

\* A style and overrides of it, with and without a display name.
NameBlockChoices ==
    {<<"obj", "Style", IdA>>, <<"over", "Style", IdA>>, <<"over", "Style", IdA, "unnamed">>}

NamePackageSets ==
    {[k \in 1..2 |-> MakePackage(k, TRUE, bs[k])] :
        bs \in [1..2 -> BlockSeqs(NameBlockChoices, 2)]}

\* The state of load_packages after find_packages and the reset of
\* all_obj, obj_override and data: up to MaxPaks packages with up to
\* MaxEntries blocks, or two packages of items or of named styles.
InitLoad ==
    /\ \/ \E n \in 1..MaxPaks, bs \in BlockSeqs(BlockChoices, MaxEntries) :
            \E en \in [1..n -> BOOLEAN], owner \in Deals(Len(bs), n) :
                packages = PackageSet(n, en, bs, owner)
       \/ packages \in ItemPackageSets \cup NamePackageSets
    /\ all_obj = EmptyByType
    /\ obj_override = EmptyByType
    /\ objs = EmptyByType
    /\ id_to_obj = EmptyByType
    /\ data = EmptyByType
    /\ pc = "scan"
    /\ pos = <<1, 0>>
    /\ base = <<>>
    /\ b_style = None
    /\ err = NoErr
    /\ NoVariants

NextLoad == ScanPackage \/ ParseObject \/ SetupStyleTree \/ WalkStep \/ FirstPass \/ SecondPass

SpecLoad == InitLoad /\ [][NextLoad]_vars

(***************************************************************************)
(* Properties of setup_style_tree.                                         *)
(***************************************************************************)
\* The styles of all_styles, by id.
LoadedStyleIds == {all_styles[i][1] : i \in DOMAIN all_styles}

\* The walk of the style at position k of all_styles has assigned its bases.
WalkDone(k) ==
    \/ pc \in {"first", "second", "done"}
    \/ pc = "walk" /\ k < pos[1]
    \/ pc = "failed" /\ (err.kind = "loop" => k < pos[1])

\* The style reached from s by n base_style links, None if the links leave
\* the loaded styles.
RECURSIVE HopN(_, _)
HopN(s, n) ==
    IF s = None \/ n = 0 THEN s
    ELSE HopN(StyleGet(StyleObj(s).base_style), n - 1)

\* Following base_style from s never leaves the loaded styles: by the
\* pigeonhole principle the links from s run into a cycle.
ReachesCycle(s) == HopN(s, Len(all_styles)) # None

\* The items setup_style_tree walks, and a version slot being concrete.
TreeItems == {objs["Item"][All("Item")[i]] : i \in DOMAIN All("Item")}

IsConcrete(v) == v.kind = "variant"

\* C1: once setup_style_tree has returned, every version of every item has
\* a slot for every loaded style and every slot holds an ItemVariant.
C1_AllSlotsConcrete ==
    pc = "done" =>
        \A item \in TreeItems : \A v \in DOMAIN item.versions : \A s \in LoadedStyleIds :
            /\ HasKey(item.versions[v].styles, s)
            /\ IsConcrete(Get(item.versions[v].styles, s))

\* The nearest proper ancestor of s, by base_style links, that has a slot in
\* styles; None if no ancestor has one.
NearestDefined(s, styles) ==
    LET ns == {n \in 1..Len(all_styles) : HopN(s, n) # None /\ HasKey(styles, HopN(s, n))}
    IN  IF ns = {} THEN None ELSE HopN(s, Min(ns))

\* The first loop of a version has just run: pc moves from "first" to
\* "second" with the cursor on the same version.
FirstPassRan == pc = "first" /\ pc' = "second"

\* C2: a style without a slot in a version is filled from its nearest
\* ancestor that has one, parent before grandparent before root.
C2_NearestAncestor ==
    [][FirstPassRan =>
        \A s \in LoadedStyleIds :
            (~HasKey(CurVer.styles, s) /\ NearestDefined(s, CurVer.styles) # None) =>
                /\ HasKey(CurVer'.styles, s)
                /\ Get(CurVer'.styles, s) = Get(CurVer.styles, NearestDefined(s, CurVer.styles))]_vars

\* C2 witness: Root and Mid have different definitions and Leaf, which the
\* version did not declare, holds the definition of Mid.
C2_Witness ==
    /\ pc = "second"
    /\ LoadedStyleIds = {Root, Mid, Leaf}
    /\ StyleObj(Leaf).bases = <<Leaf, Mid, Root>>
    /\ Len(CurVer.styles) = 3
    /\ CurVer.styles[3][1] = Leaf
    /\ Get(CurVer.styles, Leaf) = Get(CurVer.styles, Mid)
    /\ Get(CurVer.styles, Leaf) # Get(CurVer.styles, Root)

\* C3: a style without a slot and without a defined ancestor takes, in the
\* default version, the slot of the version's default style, and in any
\* other version the default version's slot for the same style, which
\* exists and is already an ItemVariant.
C3_FallbackSlots ==
    [][FirstPassRan =>
        \A s \in LoadedStyleIds :
            (~HasKey(CurVer.styles, s) /\ NearestDefined(s, CurVer.styles) = None) =>
                IF CurVer.id = def_ver(CurItem).id
                THEN /\ CurVer.def_style.kind = "name"
                     /\ Get(CurVer'.styles, s) = Get(CurVer.styles, CurVer.def_style.arg)
                ELSE /\ HasKey(def_ver(CurItem).styles, s)
                     /\ Get(CurVer'.styles, s) = Get(def_ver(CurItem).styles, s)
                     /\ IsConcrete(Get(def_ver(CurItem).styles, s))]_vars

\* C4: the chain walk visits no style twice, so it ends within as many
\* iterations as there are styles; it raises exactly for the styles whose
\* base_style links run into a cycle.
C4_WalkTerminates ==
    /\ pc = "walk" =>
        /\ Len(base) <= Len(all_styles)
        /\ \A i, j \in DOMAIN base : base[i] = base[j] => i = j
        /\ b_style \in LoadedStyleIds
    /\ err.kind = "loop" => ReachesCycle(all_styles[pos[1]][1])
    /\ \A k \in DOMAIN all_styles : WalkDone(k) => ~ReachesCycle(all_styles[k][1])

\* C4 witness: a walk was aborted at a style other than the one it started
\* from (a chain that leads into a cycle it is not part of).
C4_Witness ==
    /\ pc = "failed"
    /\ err.kind = "loop"
    /\ err.obj # all_styles[pos[1]][1]

\* The shape of a finished ancestor chain: the style itself first, every
\* next element the style named by the base_style of the one before.
ChainLinked(s) ==
    LET bs == StyleObj(s).bases
    IN  /\ Len(bs) >= 1
        /\ bs[1] = s
        /\ \A i \in 1..(Len(bs) - 1) : bs[i + 1] = StyleObj(bs[i]).base_style

\* C5 as stated: every finished chain is linked and ends at a style whose
\* base_style is unset.
C5_ChainEndsAtRoot ==
    \A k \in DOMAIN all_styles : WalkDone(k) =>
        LET s == all_styles[k][1]
            bs == StyleObj(s).bases
        IN  /\ ChainLinked(s)
            /\ StyleObj(bs[Len(bs)]).base_style = None

\* C5 amended: every finished chain is linked and ends at a style whose
\* base_style is unset or names no loaded style.
C5_ChainEndsAtLoadedRoot ==
    \A k \in DOMAIN all_styles : WalkDone(k) =>
        LET s == all_styles[k][1]
            bs == StyleObj(s).bases
        IN  /\ ChainLinked(s)
            /\ \/ StyleObj(bs[Len(bs)]).base_style = None
               \/ StyleObj(bs[Len(bs)]).base_style \notin LoadedStyleIds

\* C5 witness: setup_style_tree returned and a chain of two styles ends at
\* a style that names a base no loaded style has.
C5_Witness ==
    /\ pc = "done"
    /\ \E s \in LoadedStyleIds :
        LET bs == StyleObj(s).bases
        IN  /\ Len(bs) = 2
            /\ StyleObj(bs[2]).base_style = Unknown

\* A slot the second pass cannot resolve: an alias of a style the version
\* has no slot for, a delta on a style the version has no slot for, a delta
\* without a base.
Unresolvable(styles, v) ==
    \/ v.kind = "alias" /\ ~HasKey(styles, v.arg)
    \/ v.kind = "delta" /\ v.arg # None /\ ~HasKey(styles, v.arg)
    \/ v.kind = "delta" /\ v.arg = None

\* C6: a version with an unresolvable slot aborts the completion; the
\* second pass never finishes for it.
C6_UnresolvableIsFatal ==
    [][(pc = "second" /\ \E i \in DOMAIN CurVer.styles :
                            Unresolvable(CurVer.styles, CurVer.styles[i][2]))
        => (pc' = "failed" /\ err'.kind # "none" /\ objs' = objs)]_vars

\* C6 witness: the completion was aborted for an alias of a style the
\* version has no slot for.
C6_Witness ==
    /\ pc = "failed"
    /\ err.kind = "Invalid style reference"
    /\ \E i \in DOMAIN CurVer.styles :
        /\ CurVer.styles[i][2].kind = "alias"
        /\ CurVer.styles[i][1] = err.sty
        /\ ~HasKey(CurVer.styles, CurVer.styles[i][2].arg)

(***************************************************************************)
(* Properties of load_packages.                                            *)
(***************************************************************************)
\* The packages parse_package has been called for.
Scanned ==
    {k \in DOMAIN packages :
        /\ packages[k].enabled
        /\ IF pc = "scan" THEN k < pos[1]
           ELSE IF err.kind = "defined twice" THEN k <= pos[1]
           ELSE TRUE}

\* The object blocks of type t in the scanned packages, as <<package, block>>.
Decls(t) ==
    {<<k, n>> \in Scanned \X (1..MaxEntries + 1) :
        /\ n \in DOMAIN packages[k].entries
        /\ packages[k].entries[n].sect = "obj"
        /\ packages[k].entries[n].type = t}

DeclId(d) == packages[d[1]].entries[d[2]].id

DeclConf(d) == packages[d[1]].entries[d[2]].info.conf

\* d1 is read before d2.
Before(d1, d2) == d1[1] < d2[1] \/ (d1[1] = d2[1] /\ d1[2] < d2[2])

\* cls.by_id(object_id), for an id that is registered.
by_id(t, object_id) == objs[t][Get(id_to_obj[t], casefold(object_id))]

Registered(t, object_id) == HasKey(id_to_obj[t], casefold(object_id))

\* How often x occurs in the sequence s.
Count(x, s) == Cardinality({i \in DOMAIN s : s[i] = x})

\* C7: for a type that does not allow multiples, two declarations of one
\* identifier among the scanned packages abort the load, with an error that
\* names the archive and the identifier.
C7_DuplicateAborts ==
    \A t \in TypeSet : ~allow_mult(t) =>
        ((\E d1, d2 \in Decls(t) : d1 # d2 /\ casefold(DeclId(d1)) = casefold(DeclId(d2)))
            => /\ pc = "failed"
               /\ err.kind = "defined twice"
               /\ err.obj # None
               /\ err.pak # None)

\* C8: for a type that does not allow multiples, an entry of the registry
\* is never replaced by another object: two spellings of one identifier
\* never both reach the registry.
C8_RegistryNeverOverwritten ==
    [][\A t \in TypeSet : ~allow_mult(t) =>
        \A i \in DOMAIN id_to_obj[t] : id_to_obj'[t][i] = id_to_obj[t][i]]_vars

\* C9: for a type that allows multiples, once all objects are parsed the
\* object registered for an identifier is the one of its first declaration
\* in scan order, every later declaration has been merged into it, and
\* the loaded objects hold one object for the identifier.
C9_FirstDeclarationStays ==
    pc = "tree" =>
        \A t \in TypeSet : allow_mult(t) =>
            \A d \in Decls(t) :
                /\ Registered(t, DeclId(d))
                /\ LET first == CHOOSE f \in Decls(t) :
                                    /\ casefold(DeclId(f)) = casefold(DeclId(d))
                                    /\ \A g \in Decls(t) :
                                        casefold(DeclId(g)) = casefold(DeclId(d)) =>
                                            (g = f \/ Before(f, g))
                   IN  /\ by_id(t, DeclId(d)).conf[1] = DeclConf(first)
                       /\ Count(DeclConf(d), by_id(t, DeclId(d)).conf) = 1
                /\ Cardinality({i \in DOMAIN data[t] :
                        casefold(objs[t][data[t][i]].id) = casefold(DeclId(d))}) = 1

\* The position of x in the sequence s, 0 if it does not occur.
IndexIn(x, s) == IF InSeq(x, s) THEN CHOOSE i \in DOMAIN s : s[i] = x ELSE 0

\* C10: no object exists, so nothing is merged, while packages are still
\* being scanned; when setup_style_tree is called every queued override
\* whose target is registered has been merged into it once, in queue order.
C10_OverridesMergedOnce ==
    /\ pc = "scan" => \A t \in TypeSet : objs[t] = <<>>
    /\ pc = "tree" =>
        \A t \in TypeSet : \A q \in DOMAIN obj_override[t] :
            LET queue == obj_override[t][q][2]
            IN  \A i \in DOMAIN queue :
                    Registered(t, queue[i].id) =>
                        LET target == by_id(t, queue[i].id).conf
                        IN  /\ Count(queue[i].info.conf, target) = 1
                            /\ \A j \in DOMAIN queue :
                                i < j => IndexIn(queue[i].info.conf, target)
                                            < IndexIn(queue[j].info.conf, target)

(***************************************************************************)
(* Properties of an aborted load.                                          *)
(***************************************************************************)
\* C11: after load_packages has aborted, the id-to-object maps read by
\* all() and by_id() and the data lists hold no object of the aborted load.
C11_NoPartialGraph ==
    pc = "failed" =>
        \A t \in TypeSet : id_to_obj[t] = <<>> /\ data[t] = <<>>

(***************************************************************************)
(* ItemVariant objects.  A variant holds references (indices into heap)    *)
(* to its mutable parts, so that two variants sharing a part is visible.   *)
(*   editor:       [type, subtypes, exporting, instances]; exporting tells *)
(*                 whether the block has an 'Exporting' child and whether  *)
(*                 that has an 'Instances' child                           *)
(*   editor_extra, vbsp_config, desc, authors, tags: lists                 *)
(*   icons:        a dict, as a list of <<key, value>>                     *)
(***************************************************************************)
\* Python's None where a string is expected.
StrNone == "<None>"

\* Subtypes of the editor block of an item folder.
NumSubtypes == 2

\* A 'SubType' block: its name, its models and its 'Palette' block.
SubType(name, models, palette) == [name |-> name, models |-> models, palette |-> palette]

NoPalette == [present |-> FALSE, Tooltip |-> StrNone, Image |-> StrNone, Position |-> <<>>]

PaletteBlock(tooltip, image) ==
    [present |-> TRUE, Tooltip |-> tooltip, Image |-> image, Position |-> <<>>]

\* An 'Item' block of editoritems: its type, its 'SubType' blocks, its
\* 'Exporting' block with the 'Instances' block, and the entries of the
\* 'OccupiedVoxels' block of 'Exporting'.
EditorBlock(subtypes, exporting, instances) ==
    [type |-> StrNone, subtypes |-> subtypes, exporting |-> exporting, instances |-> instances,
     occupied |-> <<>>]

\* The mutable parts of a variant.
Components == {"editor", "editor_extra", "vbsp_config", "desc", "authors", "tags", "icons"}

\* ItemVariant.__init__
ItemVariant(refs, ent_count, url, all_name, all_icon, source) ==
    [editor |-> refs.editor, editor_extra |-> refs.editor_extra,
     vbsp_config |-> refs.vbsp_config, desc |-> refs.desc,
     authors |-> refs.authors, tags |-> refs.tags, icons |-> refs.icons,
     ent_count |-> ent_count, url |-> url,
     all_name |-> all_name, all_icon |-> all_icon, source |-> source]

\* A new object on the heap; its reference is the new length of the heap.
Alloc(h, value) == Append(h, value)

\* dict[key] = value on a dict kept as a list of pairs.
DictSet(d, key, value) ==
    IF \E i \in DOMAIN d : d[i][1] = key
    THEN [i \in DOMAIN d |-> IF d[i][1] = key THEN <<key, value>> ELSE d[i]]
    ELSE Append(d, <<key, value>>)

\* The keys a delta block of Item.parse can carry besides 'Palette' and
\* 'Instances' blocks.
DeltaKeys == {"config", "description", "authors", "tags", "ent_count", "url"}

\* A delta: keys is the set of keys the block has, the other fields are
\* their values; palette and instances are its 'Palette' and 'Instances'
\* children.
Props(keys, palette, instances) ==
    [keys |-> keys,
     config |-> <<"conf_delta">>, description |-> <<"desc_delta">>,
     authors |-> <<"auth_delta">>, tags |-> <<"tag_delta">>,
     ent_count |-> "ent_delta", url |-> "url_delta",
     palette |-> palette, instances |-> instances]

\* A child of a 'Palette' block; item.name is its key, the other fields are
\* StrNone where the child does not supply them.
PaletteItem(name, icon, pal_name, bee2, subname, models) ==
    [name |-> name, icon |-> icon, pal_name |-> pal_name, bee2 |-> bee2,
     subname |-> subname, has_models |-> models # <<>>, models |-> models]

\* int(item.name) for the palette keys of the model: IsInt tells whether
\* int() accepts the string, IntOf is its value.
IsInt(name) == name \in {"0", "1", "2", "3", "-1", "-2", "-3"}

IntOf(name) ==
    CASE name = "0" -> 0 [] name = "1" -> 1 [] name = "2" -> 2 [] name = "3" -> 3
      [] name = "-1" -> 0 - 1 [] name = "-2" -> 0 - 2 [] name = "-3" -> 0 - 3

\* subtypes[i] of a Python list: negative indices count from the end; 0
\* stands for IndexError, otherwise the result is the 1-based position.
ListIndex(len, i) ==
    IF 0 <= i /\ i < len THEN i + 1
    ELSE IF i < 0 /\ 0 - i <= len THEN len + i + 1
    ELSE 0
\* One iteration of 'for item in props.find_children("Palette")' of
\* ItemVariant.modify, on the new variant's editor, icons, all_name and
\* all_icon.
PaletteOverride(st, item) ==
    LET n == IF IsInt(item.name) THEN ListIndex(Len(st.editor.subtypes), IntOf(item.name)) ELSE 0
        subtype == st.editor.subtypes[n]
        models == IF item.has_models THEN item.models ELSE subtype.models
        name == IF item.subname # StrNone THEN item.subname ELSE subtype.name
        old == IF subtype.palette.present THEN subtype.palette ELSE PaletteBlock(StrNone, StrNone)
        palette == IF item.pal_name # StrNone \/ item.icon # StrNone
                   THEN [old EXCEPT !.Tooltip = IF item.pal_name # StrNone THEN item.pal_name ELSE @,
                                    !.Image = IF item.icon # StrNone THEN item.icon ELSE @]
                   ELSE subtype.palette
    IN  IF item.name = "all"
        THEN [st EXCEPT !.all_icon = item.icon,
                        !.all_name = item.pal_name,
                        !.icons = IF item.bee2 # StrNone THEN DictSet(@, "all", item.bee2) ELSE @]
        ELSE IF n = 0
        THEN [st EXCEPT !.err = Raise("InvalidIndex", None, None, None)]
        ELSE [st EXCEPT !.editor.subtypes[n] = SubType(name, models, palette),
                        !.icons = IF item.bee2 # StrNone THEN DictSet(@, item.name, item.bee2) ELSE @]

RECURSIVE PaletteOverrides(_, _)
PaletteOverrides(st, items) ==
    IF items = <<>> \/ st.err.kind # "none" THEN st
    ELSE PaletteOverrides(PaletteOverride(st, Head(items)), Tail(items))

\* 'for inst in props.find_children("Instances")' on the 'Instances' block
\* ensure_exists returned: the entry of that name is replaced.
RECURSIVE InstanceOverrides(_, _)
InstanceOverrides(instances, insts) ==
    IF insts = <<>> THEN instances
    ELSE InstanceOverrides(
            Append(SelectSeq(instances, LAMBDA e : e[1] # Head(insts)[1]), Head(insts)),
            Tail(insts))

\* variant.editor.ensure_exists('Exporting').ensure_exists('Instances') and
\* the loop over the delta's instances.
EnsureInstances(editor, insts) ==
    [editor EXCEPT !.exporting = "instances", !.instances = InstanceOverrides(@, insts)]

\* ItemVariant.modify(props, source) on the variant self: the heap with the
\* new objects, and the new variant.  Parts the delta does not supply are
\* copies of self's, except the authors list, which is self's own list.
ItemVariantModify(h, self, props, source) ==
    LET has(k) == k \in props.keys
        st == PaletteOverrides([err |-> NoErr, editor |-> h[self.editor], icons |-> h[self.icons],
                                all_name |-> self.all_name, all_icon |-> self.all_icon],
                               props.palette)
        h1 == Alloc(h, EnsureInstances(st.editor, props.instances))
        h2 == Alloc(h1, IF has("config") THEN props.config ELSE h[self.vbsp_config])
        h3 == Alloc(h2, h[self.editor_extra])
        h4 == Alloc(h3, IF has("description") THEN props.description ELSE h[self.desc])
        h5 == Alloc(h4, IF has("tags") THEN props.tags ELSE h[self.tags])
        h6 == Alloc(h5, st.icons)
        h7 == IF has("authors") THEN Alloc(h6, props.authors) ELSE h6
        refs == [editor |-> Len(h1), vbsp_config |-> Len(h2), editor_extra |-> Len(h3),
                 desc |-> Len(h4), tags |-> Len(h5), icons |-> Len(h6),
                 authors |-> IF has("authors") THEN Len(h7) ELSE self.authors]
    IN  [err |-> st.err,
         heap |-> h7,
         variant |-> ItemVariant(refs,
                                 IF has("ent_count") THEN props.ent_count ELSE self.ent_count,
                                 IF has("url") THEN props.url ELSE self.url,
                                 st.all_name, st.all_icon,
                                 <<source>> \o self.source)]
(***************************************************************************)
(* Inputs of ItemVariant.modify: the variant of an item folder and the     *)
(* delta blocks applied to it.                                             *)
(***************************************************************************)
\* Calls of modify in one behaviour.
MaxCalls == 2

\* The variant parse_item_folder builds for an item folder: its editor
\* block has NumSubtypes subtypes, each with a palette block.
FolderSubtypes ==
    [i \in 1..NumSubtypes |->
        SubType("name_" \o ToString(i - 1), <<"model_" \o ToString(i - 1)>>,
                PaletteBlock("tip_" \o ToString(i - 1), "img_" \o ToString(i - 1)))]

FolderHeap(exporting, icons) ==
    <<EditorBlock(FolderSubtypes, exporting,
                  IF exporting = "instances" THEN <<<<"0", "inst_base">>>> ELSE <<>>),
      <<"extra_base">>, <<"conf_base">>, <<"desc_base">>, <<"auth_base">>, <<"tag_base">>,
      icons>>

FolderVariant(all_name, all_icon) ==
    ItemVariant([editor |-> 1, editor_extra |-> 2, vbsp_config |-> 3, desc |-> 4,
                 authors |-> 5, tags |-> 6, icons |-> 7],
                "ent_base", "url_base", all_name, all_icon, <<"folder">>)

\* What a palette override can supply: any of icon, pal_name and bee2, and
\* a name and model for the subtype.
PaletteKeys == {"all", "0", "1", "2", "3", "-1", "-3", "x"}

PaletteItems ==
    {PaletteItem(name,
                 IF "icon" \in sup THEN "icon_delta" ELSE StrNone,
                 IF "pal_name" \in sup THEN "tip_delta" ELSE StrNone,
                 IF "bee2" \in sup THEN "bee2_delta" ELSE StrNone,
                 IF sub THEN "name_delta" ELSE StrNone,
                 IF sub THEN <<"model_delta">> ELSE <<>>) :
        name \in PaletteKeys, sup \in SUBSET {"icon", "pal_name", "bee2"}, sub \in BOOLEAN}

\* The deltas of the model: the empty delta, deltas with one key or all
\* keys, one palette override, a palette override of subtype 0 followed by
\* a second one, and an instance override.
DeltaChoices ==
    {Props(keys, <<>>, <<>>) : keys \in {{}, DeltaKeys} \cup {{k} : k \in DeltaKeys}}
    \cup {Props({}, <<item>>, <<>>) : item \in PaletteItems}
    \cup {Props({}, <<PaletteItem("0", "icon_delta", "tip_delta", StrNone, "name_delta", <<>>),
                      PaletteItem(name, StrNone, "tip_delta", StrNone, StrNone, <<>>)>>, <<>>) :
            name \in PaletteKeys}
    \cup {Props({}, <<>>, <<<<"0", "inst_delta">>>>)}

EmptyDelta == Props({}, <<>>, <<>>)

InitVariant ==
    /\ \E exporting \in {"absent", "empty", "instances"}, grouped \in BOOLEAN :
        /\ heap = FolderHeap(exporting, IF grouped THEN <<<<"all", "bee2_base">>>> ELSE <<>>)
        /\ variants = <<FolderVariant(IF grouped THEN "all_name_base" ELSE StrNone,
                                      IF grouped THEN "all_icon_base" ELSE StrNone)>>
    /\ calls = <<>>
    /\ pal_list = <<>>
    /\ exported = <<>>
    /\ log = <<>>
    /\ selected = <<>>
    /\ PACK_CONFIG = <<>>
    /\ mtime = <<>>
    /\ packages = <<>>
    /\ all_obj = EmptyByType
    /\ obj_override = EmptyByType
    /\ objs = EmptyByType
    /\ id_to_obj = EmptyByType
    /\ data = EmptyByType
    /\ pos = <<0, 0>>
    /\ base = <<>>
    /\ b_style = None
    /\ pc = "modify"
    /\ err = NoErr

\* A call of modify on one of the variants: the first call takes any delta,
\* a later one the empty delta or the delta of the call before.  The call
\* either raises or returns the new variant.
ModifyCall ==
    /\ pc = "modify"
    /\ Len(calls) < MaxCalls
    /\ \E i \in DOMAIN variants :
       \E props \in IF calls = <<>> THEN DeltaChoices
                    ELSE {EmptyDelta, calls[Len(calls)].props} :
            LET r == ItemVariantModify(heap, variants[i], props, "delta")
            IN  IF r.err.kind # "none"
                THEN /\ pc' = "failed"
                     /\ err' = r.err
                     /\ calls' = Append(calls, [self |-> i, props |-> props, result |-> 0])
                     /\ UNCHANGED <<heap, variants>>
                ELSE /\ heap' = r.heap
                     /\ variants' = Append(variants, r.variant)
                     /\ calls' = Append(calls, [self |-> i, props |-> props,
                                                result |-> Len(variants) + 1])
                     /\ UNCHANGED <<pc, err>>
    /\ UNCHANGED <<loadVars, pal_list, exported, log, selected, packVars>>

NextVariant == ModifyCall

SpecVariant == InitVariant /\ [][NextVariant]_vars

(***************************************************************************)
(* Properties of ItemVariant.modify.                                       *)
(***************************************************************************)
\* The calls of modify that returned a variant.
Returned == {k \in DOMAIN calls : calls[k].result # 0}

SelfOf(k) == variants[calls[k].self]

ResultOf(k) == variants[calls[k].result]

\* C12: every mutable part of the variant modify returns (editor block,
\* extra blocks, config, description, tags, authors, icons) is another
\* object than the base's, so that mutating the result cannot change the
\* base.
C12_IndependentCopy ==
    \A k \in Returned : \A c \in Components : ResultOf(k)[c] # SelfOf(k)[c]

\* The semantic content of a variant: everything but its provenance.
Content(v) ==
    [editor |-> heap[v.editor], editor_extra |-> heap[v.editor_extra],
     vbsp_config |-> heap[v.vbsp_config], desc |-> heap[v.desc],
     authors |-> heap[v.authors], tags |-> heap[v.tags], icons |-> heap[v.icons],
     all_name |-> v.all_name, all_icon |-> v.all_icon,
     ent_count |-> v.ent_count, url |-> v.url]

\* C13: modify with an empty delta returns a variant with the content of
\* the base, whatever the base's editor block holds; applied to its own
\* result it returns that content again.
C13_EmptyDeltaKeepsContent ==
    \A k \in DOMAIN calls :
        calls[k].props = EmptyDelta =>
            /\ k \in Returned
            /\ Content(ResultOf(k)) = Content(SelfOf(k))

\* A palette key that names a subtype of the variant: the index i of an
\* existing subtype, 0 <= i < number of subtypes.
NamesSubtype(name, v) ==
    /\ IsInt(name)
    /\ 0 <= IntOf(name)
    /\ IntOf(name) < Len(heap[v.editor].subtypes)

\* C14: a palette override whose key is neither 'all' nor the index of an
\* existing subtype makes modify raise, and no variant is returned.
C14_InvalidIndexRaises ==
    \A k \in DOMAIN calls :
        (\E n \in DOMAIN calls[k].props.palette :
            LET name == calls[k].props.palette[n].name
            IN  name # "all" /\ ~NamesSubtype(name, SelfOf(k)))
        => calls[k].result = 0

\* C15: every field of the result keeps the base's value unless the delta
\* supplies its own; the grouped name and icon are replaced only by an
\* 'all' palette override that supplies pal_name, respectively icon.
C15_KeepsUnsuppliedFields ==
    \A k \in Returned :
        LET props == calls[k].props
            new == Content(ResultOf(k))
            old == Content(SelfOf(k))
            alls == {n \in DOMAIN props.palette : props.palette[n].name = "all"}
        IN  /\ "config" \notin props.keys => new.vbsp_config = old.vbsp_config
            /\ "description" \notin props.keys => new.desc = old.desc
            /\ "authors" \notin props.keys => new.authors = old.authors
            /\ "tags" \notin props.keys => new.tags = old.tags
            /\ "ent_count" \notin props.keys => new.ent_count = old.ent_count
            /\ "url" \notin props.keys => new.url = old.url
            /\ new.editor_extra = old.editor_extra
            /\ (\A n \in alls : props.palette[n].pal_name = StrNone) => new.all_name = old.all_name
            /\ (\A n \in alls : props.palette[n].icon = StrNone) => new.all_icon = old.all_icon

(***************************************************************************)
(* Properties of the override merge.                                       *)
(***************************************************************************)
\* The entries of a list.
Entries(s) == {s[i] : i \in DOMAIN s}

\* The object an all_obj entry of type t parses to, before any override is
\* merged, and the objects its queued overrides parse to.
Declared(t, id) ==
    Parse(t, ParseData(id, Get(all_obj[t], id).info_block, Get(all_obj[t], id).pak_id, FALSE))

QueuedOverrides(t, id) == [q \in DOMAIN Overrides(t, id) |-> Parse(t, Overrides(t, id)[q])]

\* C16: when an override has a concrete variant for a (version, style) the
\* item defines with a concrete variant, the merged variant's authors, tags
\* and config blocks contain every entry of the item's and every entry of
\* the override's.
C16_MergeKeepsBothSides ==
    \A r \in DOMAIN data["Item"] :
        LET obj == objs["Item"][data["Item"][r]]
            decl == Declared("Item", obj.id)
            overs == QueuedOverrides("Item", obj.id)
        IN  \A q \in DOMAIN overs, v \in DOMAIN decl.versions :
            \A w \in DOMAIN overs[q].versions :
            \A i \in DOMAIN decl.versions[v].styles :
            \A j \in DOMAIN overs[q].versions[w].styles :
                LET ours == decl.versions[v].styles[i]
                    theirs == overs[q].versions[w].styles[j]
                    merged == Get(obj.versions[IndexOfVersion(obj.versions, decl.versions[v].id)].styles,
                                  ours[1])
                IN  (/\ decl.versions[v].id = overs[q].versions[w].id
                     /\ ours[1] = theirs[1]
                     /\ IsConcrete(ours[2])
                     /\ IsConcrete(theirs[2]))
                    => /\ Entries(ours[2].authors) \cup Entries(theirs[2].authors)
                            \subseteq Entries(merged.authors)
                       /\ Entries(ours[2].tags) \cup Entries(theirs[2].tags)
                            \subseteq Entries(merged.tags)
                       /\ Entries(ours[2].vbsp_config) \cup Entries(theirs[2].vbsp_config)
                            \subseteq Entries(merged.vbsp_config)

\* C17: the display name of a loaded object is the first one that was set,
\* the one of its declaration, whatever its overrides supply; and an
\* override without a display name does not make the load fail: the only
\* blocks that fail for a missing name are declarations.
C17_FirstNameStays ==
    /\ \A r \in DOMAIN data["Style"] :
            LET obj == objs["Style"][data["Style"][r]]
            IN  obj.name = Declared("Style", obj.id).name
    /\ (pc = "failed" /\ err.kind = "IndexError") =>
            Declared("Style", err.obj).name = None

\* The multiset of the entries of a list.
BagOf(s) == [x \in Entries(s) |-> Cardinality({i \in DOMAIN s : s[i] = x})]

RECURSIVE ConfOf(_)
ConfOf(overs) == IF overs = <<>> THEN <<>> ELSE Head(overs).conf \o ConfOf(Tail(overs))

\* The object of an all_obj entry after its overrides were merged in the
\* order given by the permutation p of the queue.
MergedIn(t, id, p) ==
    ApplyOverrides(t, [err |-> NoErr, obj |-> Declared(t, id)],
                   [i \in DOMAIN Overrides(t, id) |-> Overrides(t, id)[p[i]]])

MaxPalette == 6

\* The id of the exported item, and of the other items on the palette.
ExportItem == "ITEM"

OtherItem == "OTHER"

\* palette_items: the index (from 0) of the last entry of pal_list that
\* places the subtype of this item, -1 if there is none.
PaletteItemsOf(pal, id, subitem) ==
    LET hits == {i \in DOMAIN pal : pal[i] = <<id, subitem>>}
    IN  IF hits = {} THEN 0 - 1 ELSE (CHOOSE i \in hits : \A j \in hits : j <= i) - 1

\* len(palette_items)
NumPlaced(pal, id) == Cardinality({pal[i][2] : i \in {j \in DOMAIN pal : pal[j][1] = id}})

\* Palette icons must end with '.png': icon[:-3] + 'png' for the icons that
\* end with '.vtf' in any case.
ForcePng(icon) ==
    CASE icon = "all_icon.vtf" -> "all_icon.png"
      [] icon = "ALL_ICON.VTF" -> "ALL_ICON.png"
      [] icon = "img_0.vtf" -> "img_0.png"
      [] OTHER -> icon

\* Mutant of GridPosition: column and row are swapped.
GridPositionSwapped(index) == <<index \div 4, index % 4, 0>>

\* "{x} {y} 0".format(x=index % 4, y=index // 4)
GridPosition(index) == <<index % 4, index \div 4, 0>>

\* Mutant of DeletePalette: the subtype keeps its palette block.
DeletePaletteNot(subtype) == subtype

\* del editor_section[editor_sec_index] for the 'Palette' block of a
\* subtype that is not on the palette.
DeletePalette(subtype) == [subtype EXCEPT !.palette = NoPalette]

\* The body of the loop over the subtypes for the subtype at index (from
\* 0); subtypes without a palette block are skipped.
ExportSubtype(st, index, pal, id, item_data) ==
    LET subtype == st.editor.subtypes[index + 1]
        on == PaletteItemsOf(pal, id, index)
        grouped == NumPlaced(pal, id) = 1
        icon == IF item_data.all_icon # StrNone THEN item_data.all_icon ELSE subtype.palette.Image
        section == [subtype.palette EXCEPT
                        !.Tooltip = IF grouped /\ item_data.all_name # StrNone
                                    THEN item_data.all_name ELSE @,
                        !.Image = IF grouped THEN ForcePng(icon) ELSE @,
                        !.Position = GridPosition(on)]
    IN  IF ~subtype.palette.present THEN st
        ELSE IF on < 0
        THEN [st EXCEPT !.editor.subtypes[index + 1] = DeletePalette(subtype)]
        ELSE IF grouped /\ icon = StrNone
        THEN [st EXCEPT !.err = Raise("IndexError", None, None, None)]
        ELSE [st EXCEPT !.editor.subtypes[index + 1].palette = section]

RECURSIVE ExportSubtypes(_, _, _, _, _)
ExportSubtypes(st, index, pal, id, item_data) ==
    IF index >= Len(st.editor.subtypes) \/ st.err.kind # "none" THEN st
    ELSE ExportSubtypes(ExportSubtype(st, index, pal, id, item_data), index + 1, pal, id, item_data)

\* No vector: the key is not in the block.
NoVec == <<>>

\* An entry of an 'OccupiedVoxels' block: a 'Voxel', or a region, a
\* 'SurfaceVolume' with the corners 'SubPos1' and 'SubPos2' or a 'Volume'
\* with the corners 'Pos1' and 'Pos2'; its 'Pos' key and its 'Surface'
\* blocks, each the 'Pos' it holds; label stands for its other keys.
VoxelPart(name, label, at, corner1, corner2) ==
    [name |-> name, label |-> label, Pos |-> at, corner1 |-> corner1, corner2 |-> corner2,
     surfaces |-> <<>>]

\* Vec.bbox: the smallest and the largest coordinate on each axis.
Bbox(p1, p2) ==
    [min |-> [i \in 1..3 |-> IF p1[i] <= p2[i] THEN p1[i] ELSE p2[i]],
     max |-> [i \in 1..3 |-> IF p1[i] <= p2[i] THEN p2[i] ELSE p1[i]]]

\* Vec.iter_grid: every integer point from min_pos to max_pos, both
\* included, x outermost.
IterGrid(min_pos, max_pos) ==
    LET ny == max_pos[2] - min_pos[2] + 1
        nz == max_pos[3] - min_pos[3] + 1
        nx == max_pos[1] - min_pos[1] + 1
    IN  [n \in 1..(nx * ny * nz) |->
            <<min_pos[1] + ((n - 1) \div (ny * nz)),
              min_pos[2] + (((n - 1) \div nz) % ny),
              min_pos[3] + ((n - 1) % nz)>>]

\* 'subpos1' in voxel_part and 'subpos2' in voxel_part, and the same for
\* 'pos1' and 'pos2'.
HasCorners(part) == part.corner1 # NoVec /\ part.corner2 # NoVec

\* The warning for a region without both corners.
InvalidPart(id, keys) == <<"invalid OccupiedVoxels part", id, keys>>

\* Mutant of ExpandSurfaceVolume: the far corner is left out.
ExpandSurfaceVolumeShort(part) ==
    LET box == Bbox(part.corner1, part.corner2)
        grid == IterGrid(box.min, box.max)
    IN  [part EXCEPT !.name = "Voxel", !.corner1 = NoVec, !.corner2 = NoVec,
                     !.surfaces = @ \o SubSeq(grid, 1, Len(grid) - 1)]

\* The body of the loop over the 'SurfaceVolume' blocks for one with both
\* corners: it becomes a 'Voxel' with a 'Surface' block for every point.
ExpandSurfaceVolume(part) ==
    LET box == Bbox(part.corner1, part.corner2)
    IN  [part EXCEPT !.name = "Voxel", !.corner1 = NoVec, !.corner2 = NoVec,
                     !.surfaces = @ \o IterGrid(box.min, box.max)]

\* The loop over the 'SurfaceVolume' blocks.
SurfaceVolumes(st, id) ==
    LET parts == st.editor.occupied
        invalid == SelectSeq(parts, LAMBDA part : part.name = "SurfaceVolume" /\ ~HasCorners(part))
    IN  [st EXCEPT
            !.editor.occupied =
                [i \in DOMAIN parts |->
                    IF parts[i].name = "SurfaceVolume" /\ HasCorners(parts[i])
                    THEN ExpandSurfaceVolume(parts[i]) ELSE parts[i]],
            !.log = @ \o [i \in DOMAIN invalid |-> InvalidPart(id, "SubPos1 and SubPos2")]]

\* del occu_voxels['Volume']: the block without its last 'Volume'.
DelVolume(parts) ==
    LET last == CHOOSE i \in DOMAIN parts :
                    /\ parts[i].name = "Volume"
                    /\ \A j \in DOMAIN parts : parts[j].name = "Volume" => j <= i
    IN  SubSeq(parts, 1, last - 1) \o SubSeq(parts, last + 1, Len(parts))

\* The body of the loop over the 'Volume' blocks for one with both corners:
\* the block loses it and gets a copy of it for every point, a 'Voxel' at
\* that 'Pos'.
ExpandVolume(parts, voxel_part) ==
    LET box == Bbox(voxel_part.corner1, voxel_part.corner2)
        grid == IterGrid(box.min, box.max)
    IN  DelVolume(parts) \o
            [n \in DOMAIN grid |->
                [voxel_part EXCEPT !.name = "Voxel", !.corner1 = NoVec,
                                   !.corner2 = NoVec, !.Pos = grid[n]]]

\* The loop over list(occu_voxels.find_all("Volume")) from its entry k on.
\* The blocks of the model hold at most one 'Volume', so the one the del
\* removes is the one at hand.
RECURSIVE Volumes(_, _, _, _)
Volumes(st, found, k, id) ==
    IF k > Len(found) THEN st
    ELSE IF ~HasCorners(found[k])
    THEN Volumes([st EXCEPT !.editor.occupied = DelVolume(@),
                            !.log = Append(@, InvalidPart(id, "Pos1 and Pos2"))],
                 found, k + 1, id)
    ELSE Volumes([st EXCEPT !.editor.occupied = ExpandVolume(@, found[k])], found, k + 1, id)

\* Mutant of NewEditor: the editor block of the variant itself.
NewEditorAlias(h, item_data) == [heap |-> h, ref |-> item_data.editor]

\* item_data.editor.copy(): a new object, equal to the variant's.
NewEditor(h, item_data) == [heap |-> Alloc(h, h[item_data.editor]), ref |-> Len(h) + 1]

\* Item._get_export_data for the variant item_data of the item: the heap
\* with the new editor block, the reference to it, the variant's own
\* extra blocks, the joined config and the warnings logged.
get_export_data(h, id, all_conf, item_data, pal) ==
    LET new == NewEditor(h, item_data)
        new_editor == [new.heap[new.ref] EXCEPT !.type = id]
        st1 == ExportSubtypes([err |-> NoErr, editor |-> new_editor, log |-> <<>>],
                              0, pal, id, item_data)
        st2 == SurfaceVolumes(st1, id)
        st3 == Volumes(st2, SelectSeq(st2.editor.occupied, LAMBDA part : part.name = "Volume"),
                       1, id)
        st == IF st1.err.kind # "none" THEN st1 ELSE st3
    IN  [err |-> st.err,
         heap |-> [new.heap EXCEPT ![new.ref] = st.editor],
         editor |-> new.ref,
         editor_extra |-> item_data.editor_extra,
         config |-> all_conf \o h[item_data.vbsp_config],
         log |-> st.log]

\* The palette selections of the model: up to MaxPalette entries, each
\* subtype of the item at most once, the other entries other items.
PalLists ==
    UNION {{[p \in 1..n |->
                IF \E k \in DOMAIN place : place[k] = p
                THEN <<ExportItem, CHOOSE k \in DOMAIN place : place[k] = p>>
                ELSE <<OtherItem, p>>] :
             place \in {f \in [0..(NumSubtypes - 1) -> 0..n] :
                            \A k1, k2 \in DOMAIN f : (f[k1] = f[k2] /\ f[k1] # 0) => k1 = k2}} :
           n \in 0..MaxPalette}

\* The variant of the exported item: with or without a grouped name and
\* icon, and with or without a palette block in its first subtype.
ExportHeap(bare) ==
    [FolderHeap("instances", <<>>) EXCEPT
        ![1].subtypes[1].palette = IF bare THEN NoPalette ELSE @]

InitExport ==
    /\ \E bare \in BOOLEAN, all_name \in {StrNone, "all_name_base"},
          all_icon \in {StrNone, "all_icon.vtf", "all_icon.png"} :
        /\ heap = ExportHeap(bare)
        /\ variants = <<FolderVariant(all_name, all_icon)>>
    /\ pal_list \in PalLists
    /\ calls = <<>>
    /\ exported = <<>>
    /\ log = <<>>
    /\ selected = <<>>
    /\ PACK_CONFIG = <<>>
    /\ mtime = <<>>
    /\ packages = <<>>
    /\ all_obj = EmptyByType
    /\ obj_override = EmptyByType
    /\ objs = EmptyByType
    /\ id_to_obj = EmptyByType
    /\ data = EmptyByType
    /\ pos = <<0, 0>>
    /\ base = <<>>
    /\ b_style = None
    /\ pc = "export"
    /\ err = NoErr

\* Item.export queries the item for its editor block, once or again, and
\* adds copies of what it gets to editoritems and to the config; the new
\* editor block is dropped after that.
GetExportData ==
    /\ pc \in {"export", "exported"}
    /\ LET r == get_export_data(heap, ExportItem, <<"all_conf">>, variants[1], pal_list)
       IN  /\ heap' = SubSeq(r.heap, 1, Len(heap))
           /\ log' = r.log
           /\ IF r.err.kind # "none"
              THEN /\ pc' = "failed"
                   /\ err' = r.err
                   /\ UNCHANGED exported
              ELSE /\ pc' = "exported"
                   /\ exported' = [editor |-> r.heap[r.editor],
                                   editor_extra |-> r.heap[r.editor_extra],
                                   config |-> r.config]
                   /\ UNCHANGED err
    /\ UNCHANGED <<loadVars, variants, calls, pal_list, selected, packVars>>

NextExport == GetExportData

SpecExport == InitExport /\ [][NextExport]_vars

(***************************************************************************)
(* Properties of the export.                                               *)
(***************************************************************************)
\* The subtypes of the exported item that pal_list places, by index from 0.
Placed == {pal_list[i][2] : i \in {j \in DOMAIN pal_list : pal_list[j][1] = ExportItem}}

SourceSubtypes == heap[variants[1].editor].subtypes

\* C19: a subtype placed at palette index i gets the position
\* (i mod 4, i div 4, 0) in its palette block.
C19_GridPosition ==
    pc = "exported" =>
        \A i \in DOMAIN pal_list :
            (pal_list[i][1] = ExportItem /\ SourceSubtypes[pal_list[i][2] + 1].palette.present) =>
                LET section == exported.editor.subtypes[pal_list[i][2] + 1].palette
                IN  /\ section.present
                    /\ section.Position = <<(i - 1) % 4, (i - 1) \div 4, 0>>

\* C19 witness: both subtypes are placed, one of them below the first row
\* of the palette grid.
C19_Witness ==
    /\ pc = "exported"
    /\ Placed = 0..(NumSubtypes - 1)
    /\ \E k \in DOMAIN exported.editor.subtypes :
        /\ exported.editor.subtypes[k].palette.present
        /\ exported.editor.subtypes[k].palette.Position[2] >= 1
        /\ exported.editor.subtypes[k].palette.Position[1] >= 1

\* C20 as claimed: nothing of a subtype that is not placed remains in the
\* exported editor block, neither its palette block nor the subtype block
\* with its name and models.
C20_UnplacedStripped ==
    pc = "exported" =>
        \A k \in DOMAIN SourceSubtypes :
            (k - 1) \notin Placed =>
                \A n \in DOMAIN exported.editor.subtypes :
                    /\ exported.editor.subtypes[n].name # SourceSubtypes[k].name
                    /\ exported.editor.subtypes[n].models # SourceSubtypes[k].models

\* C20 as the code has it: a subtype that is not placed loses its palette
\* block and nothing else, its subtype block stays in place with its name
\* and models; a placed subtype keeps its palette block.
C20_UnplacedLosePalette ==
    pc = "exported" =>
        /\ Len(exported.editor.subtypes) = Len(SourceSubtypes)
        /\ \A k \in DOMAIN SourceSubtypes :
            /\ exported.editor.subtypes[k].name = SourceSubtypes[k].name
            /\ exported.editor.subtypes[k].models = SourceSubtypes[k].models
            /\ exported.editor.subtypes[k].palette.present =
                    (SourceSubtypes[k].palette.present /\ (k - 1) \in Placed)

\* C20 witness: of two subtypes with palette blocks only subtype 1 is
\* placed.
C20_Witness ==
    /\ pc = "exported"
    /\ Placed = {1}
    /\ \A k \in DOMAIN SourceSubtypes : SourceSubtypes[k].palette.present
    /\ ~exported.editor.subtypes[1].palette.present
    /\ exported.editor.subtypes[2].palette.present

(***************************************************************************)
(* Item._get_export_data for editor blocks with an 'OccupiedVoxels' block. *)
(***************************************************************************)
\* The largest coordinate of a corner of a region.
MaxCoord == 1

Corners == {<<x, y, z>> : x \in 0..MaxCoord, y \in 0..MaxCoord, z \in 0..MaxCoord}

OtherForm(form) == IF form = "Volume" THEN "SurfaceVolume" ELSE "Volume"

\* The entries next to the region: none, a region of the other form with
\* both corners or with the second one only, or a second 'SurfaceVolume'.
OtherParts(form) ==
    {<<>>,
     <<VoxelPart(OtherForm(form), "other", NoVec, <<0, 0, 0>>, <<MaxCoord, 0, 0>>)>>,
     <<VoxelPart(OtherForm(form), "other", NoVec, NoVec, <<MaxCoord, 0, 0>>)>>}
    \cup IF form = "SurfaceVolume"
         THEN {<<VoxelPart("SurfaceVolume", "other", NoVec, <<0, 0, 0>>, <<0, MaxCoord, 0>>)>>}
         ELSE {}

\* An 'OccupiedVoxels' block: a 'Voxel', a region with any corners or
\* without one, and the entries next to it.
OccupiedBlocks ==
    UNION {{<<VoxelPart("Voxel", "voxel", <<0, 0, 0>>, NoVec, NoVec),
              VoxelPart(form, "region", IF form = "Volume" THEN NoVec ELSE <<0, 0, 0>>, c1, c2)>>
            \o other :
                c1 \in Corners \cup {NoVec}, c2 \in Corners \cup {NoVec},
                other \in OtherParts(form)} :
           form \in {"SurfaceVolume", "Volume"}}

InitVoxel ==
    /\ \E occupied \in OccupiedBlocks :
            heap = [FolderHeap("instances", <<>>) EXCEPT ![1].occupied = occupied]
    /\ variants = <<FolderVariant(StrNone, StrNone)>>
    /\ pal_list \in {<<>>, <<<<ExportItem, 0>>>>}
    /\ calls = <<>>
    /\ exported = <<>>
    /\ log = <<>>
    /\ selected = <<>>
    /\ PACK_CONFIG = <<>>
    /\ mtime = <<>>
    /\ packages = <<>>
    /\ all_obj = EmptyByType
    /\ obj_override = EmptyByType
    /\ objs = EmptyByType
    /\ id_to_obj = EmptyByType
    /\ data = EmptyByType
    /\ pos = <<0, 0>>
    /\ base = <<>>
    /\ b_style = None
    /\ pc = "export"
    /\ err = NoErr

SpecVoxel == InitVoxel /\ [][NextExport]_vars

(***************************************************************************)
(* Properties of the expansion of regions.                                 *)
(***************************************************************************)
\* The 'OccupiedVoxels' block of the variant and of the exported block.
SourceOccupied == heap[variants[1].editor].occupied

ExportedOccupied == exported.editor.occupied

Abs(n) == IF n < 0 THEN 0 - n ELSE n

\* The integer points of the box two corners span, and their number.
Box(c1, c2) ==
    {p \in (0..MaxCoord) \X (0..MaxCoord) \X (0..MaxCoord) :
        \A i \in 1..3 : \/ c1[i] <= p[i] /\ p[i] <= c2[i]
                        \/ c2[i] <= p[i] /\ p[i] <= c1[i]}

BoxSize(c1, c2) ==
    (Abs(c1[1] - c2[1]) + 1) * (Abs(c1[2] - c2[2]) + 1) * (Abs(c1[3] - c2[3]) + 1)

\* The entries of the exported block that come from the entry with a label.
FromLabel(label) == SelectSeq(ExportedOccupied, LAMBDA part : part.label = label)

\* The places of a sequence that hold p.
Places(seq, p) == {i \in DOMAIN seq : seq[i] = p}

C22_MalformedLeftAlone ==
    /\ pc # "failed"
    /\ pc = "exported" =>
        \A k \in DOMAIN SourceOccupied :
            LET part == SourceOccupied[k]
            IN  /\ (part.name \in {"SurfaceVolume", "Volume"} /\ ~HasCorners(part)) =>
                    /\ FromLabel(part.label) = <<part>>
                    /\ \E n \in DOMAIN log : log[n][1] = "invalid OccupiedVoxels part"
                /\ part.name = "Voxel" => FromLabel(part.label) = <<part>>

(***************************************************************************)
(* Item.export: the editor blocks and the configs of every item, for the   *)
(* selected style and versions.  An Item holds its id, its versions (a     *)
(* dict from the version id to the id and the styles of the version, a     *)
(* dict from the style id to an index of variants) and its all_conf; an    *)
(* ItemConfig holds its id, its all_conf and its versions (a dict from the *)
(* version id to a dict from the style id to a config); a Style holds its  *)
(* id and the ids of its bases.  VerDefault is the id 'VER_DEFAULT'.       *)
(***************************************************************************)
\* Tuples of character codes in the order of str.
RECURSIVE StrLess(_, _)
StrLess(a, b) ==
    IF a = <<>> THEN b # <<>>
    ELSE IF b = <<>> THEN FALSE
    ELSE IF Head(a) # Head(b) THEN Head(a) < Head(b)
    ELSE StrLess(Tail(a), Tail(b))

\* sorted(Item.all(), key=operator.attrgetter('id')), as indices of
\* objs["Item"]; the sort keeps the order of items with equal ids.
SortedItems ==
    LET all == objs["Item"]
        Earlier(i, j) == StrLess(all[i].id, all[j].id) \/ (all[i].id = all[j].id /\ i < j)
    IN  [k \in DOMAIN all |->
            CHOOSE i \in DOMAIN all : Cardinality({j \in DOMAIN all : Earlier(j, i)}) = k - 1]

\* {conf.id: conf for conf in ItemConfig.all()}
RECURSIVE AuxItemConfigs(_, _)
AuxItemConfigs(confs, acc) ==
    IF confs = <<>> THEN acc
    ELSE AuxItemConfigs(Tail(confs), Put(acc, Head(confs).id, Head(confs)))

\* versions.get(item.id, 'VER_DEFAULT')
SelectedVersion(versions, item_id) ==
    IF HasKey(versions, item_id) THEN Get(versions, item_id) ELSE VerDefault

\* self.versions[ver_id]['styles'][style_id], then the rest of
\* Item._get_export_data.
ItemExportData(h, item, pal, ver_id, style_id) ==
    IF ~HasKey(item.versions, ver_id) \/ ~HasKey(Get(item.versions, ver_id).styles, style_id)
    THEN [err |-> Raise("KeyError", item.id, style_id, ver_id), heap |-> h, editor |-> 0,
          editor_extra |-> 0, config |-> <<>>, log |-> <<>>]
    ELSE get_export_data(h, item.id, item.all_conf,
                         variants[Get(Get(item.versions, ver_id).styles, style_id)], pal)

\* Mutant of StyleConfig: the config of the last base that has one.
StyleConfigLast(version_data, bases) ==
    LET has == {k \in DOMAIN bases : HasKey(version_data, bases[k])}
    IN  IF has = {} THEN <<>>
        ELSE Get(version_data, bases[CHOOSE k \in has : \A j \in has : j <= k])

\* The loop over exp_data.selected_style.bases: a copy of the config of the
\* first base that version_data has one for.
StyleConfig(version_data, bases) ==
    LET has == {k \in DOMAIN bases : HasKey(version_data, bases[k])}
    IN  IF has = {} THEN <<>>
        ELSE Get(version_data, bases[Min(has)])

\* The auxiliary configs Item.export adds for an item.
AuxConfig(aux_item_configs, item_id, ver_id, bases) ==
    IF ~HasKey(aux_item_configs, item_id) THEN <<>>
    ELSE LET aux_conf == Get(aux_item_configs, item_id)
         IN  aux_conf.all_conf \o
                (IF HasKey(aux_conf.versions, ver_id)
                 THEN StyleConfig(Get(aux_conf.versions, ver_id), bases)
                 ELSE <<>>)

\* The body of the loop of Item.export for one item.
ExportItem1(st, item, pal, sel) ==
    LET ver_id == SelectedVersion(sel.versions, item.id)
        r == ItemExportData(st.heap, item, pal, ver_id, sel.style)
        bases == objs["Style"][CHOOSE i \in DOMAIN objs["Style"] :
                                    objs["Style"][i].id = sel.style].bases
    IN  IF r.err.kind # "none" THEN [st EXCEPT !.err = r.err]
        ELSE [st EXCEPT
                !.heap = r.heap,
                !.log = @ \o r.log,
                !.editoritems = @ \o <<r.heap[r.editor], r.heap[r.editor_extra]>>,
                !.vbsp_config = @ \o r.config
                                  \o AuxConfig(AuxItemConfigs(objs["ItemConfig"], <<>>),
                                               item.id, ver_id, bases)]

\* The loop of Item.export from the k-th item on.
RECURSIVE ExportItems(_, _, _, _)
ExportItems(st, k, pal, sel) ==
    IF k > Len(SortedItems) \/ st.err.kind # "none" THEN st
    ELSE ExportItems(ExportItem1(st, objs["Item"][SortedItems[k]], pal, sel), k + 1, pal, sel)

\* Item.export(exp_data), once or again with the same selection; the new
\* editor blocks are dropped after it.
ItemExport ==
    /\ pc \in {"export", "exported"}
    /\ LET st == ExportItems([err |-> NoErr, heap |-> heap, log |-> <<>>,
                              editoritems |-> <<>>, vbsp_config |-> <<>>],
                             1, pal_list, selected)
       IN  /\ heap' = SubSeq(st.heap, 1, Len(heap))
           /\ log' = st.log
           /\ IF st.err.kind # "none"
              THEN /\ pc' = "failed"
                   /\ err' = st.err
                   /\ UNCHANGED exported
              ELSE /\ pc' = "exported"
                   /\ exported' = [editoritems |-> st.editoritems,
                                   vbsp_config |-> st.vbsp_config]
                   /\ UNCHANGED err
    /\ UNCHANGED <<packages, all_obj, obj_override, objs, id_to_obj, data, pos, base, b_style,
                   variants, calls, pal_list, selected, packVars>>

(***************************************************************************)
(* Inputs of Item.export: a completed object graph and a selection.        *)
(***************************************************************************)
\* Items of the object graph.
MaxItems == 2

ItemIdOf(k) == <<64 + k>>

\* The objects of the variant with index v: those of an item folder, with
\* a 'Volume' region in the editor block.
HeapOf(v) ==
    [FolderHeap("instances", <<>>) EXCEPT
        ![1].occupied = <<VoxelPart("Volume", "region", NoVec, <<0, 0, 0>>, <<1, 0, 0>>)>>,
        ![2] = <<"extra_" \o ToString(v)>>,
        ![3] = <<"conf_" \o ToString(v)>>]

RECURSIVE HeapsOf(_)
HeapsOf(n) == IF n = 0 THEN <<>> ELSE HeapsOf(n - 1) \o HeapOf(n)

VariantAt(v) ==
    LET at == Len(HeapOf(1)) * (v - 1)
    IN  ItemVariant([editor |-> at + 1, editor_extra |-> at + 2, vbsp_config |-> at + 3,
                     desc |-> at + 4, authors |-> at + 5, tags |-> at + 6, icons |-> at + 7],
                    "ent_base", "url_base", StrNone, StrNone, <<"folder">>)

\* The chain Root <- Mid <- Leaf as setup_style_tree leaves it.
ChainStyles ==
    <<[id |-> Root, bases |-> <<Root>>],
      [id |-> Mid, bases |-> <<Mid, Root>>],
      [id |-> Leaf, bases |-> <<Leaf, Mid, Root>>]>>

\* A version as setup_style_tree leaves it: every style has the variant.
CompleteVersion(id, v) ==
    [id |-> id, styles |-> [i \in DOMAIN ChainStyles |-> <<ChainStyles[i].id, v>>]]

\* An item with the given version ids, the first its default version, whose
\* variants are first_v and the ones after it.
CompleteItem(k, ver_ids, first_v) ==
    [id |-> ItemIdOf(k),
     versions |-> [n \in DOMAIN ver_ids |->
                        <<ver_ids[n], CompleteVersion(ver_ids[n], first_v + n - 1)>>],
     def_ver |-> ver_ids[1],
     all_conf |-> <<"all_" \o ToString(k)>>]

\* The version ids the first item declares, in order; the other items
\* declare 'VER_DEFAULT' only.
VersionIdChoices ==
    {<<VerDefault>>, <<VerOther>>, <<VerDefault, VerOther>>, <<VerOther, VerDefault>>}

CompleteItems(n, ver_ids) ==
    [k \in 1..n |-> IF k = 1 THEN CompleteItem(1, ver_ids, 1)
                    ELSE CompleteItem(k, <<VerDefault>>, Len(ver_ids) + k - 1)]

\* The config an ItemConfig holds for a style in a version.
AuxStyleConf(ver_id, style) == <<"aux_" \o ToString(ver_id) \o ToString(style)>>

AuxVersion(ver_id, styles) ==
    <<ver_id, [i \in DOMAIN styles |-> <<styles[i], AuxStyleConf(ver_id, styles[i])>>]>>

\* The ItemConfig objects: none, or one for the first item with configs for
\* some styles in one version or in both.
ItemConfigChoices ==
    LET some == UNION {DistinctSeqs(StyleNames, m) : m \in 0..1} \cup {<<Root, Leaf>>, <<Mid, Root>>}
    IN  {<<>>} \cup
        {<<[id |-> ItemIdOf(1), all_conf |-> <<"aux_all">>, versions |-> vers]>> :
            vers \in {<<>>}
                     \cup {<<AuxVersion(VerDefault, st)>> : st \in some}
                     \cup {<<AuxVersion(VerOther, st)>> : st \in some}
                     \cup {<<AuxVersion(VerDefault, st), AuxVersion(VerOther, <<Root>>)>> :
                                st \in some}}

\* Item.export is called on a completed object graph.
InitItems ==
    /\ \E n \in 1..MaxItems, ver_ids \in VersionIdChoices, confs \in ItemConfigChoices :
        /\ objs = [t \in TypeSet |->
                        IF t = "Style" THEN ChainStyles
                        ELSE IF t = "Item" THEN CompleteItems(n, ver_ids)
                        ELSE confs]
        /\ heap = HeapsOf(Len(ver_ids) + n - 1)
        /\ variants = [v \in 1..(Len(ver_ids) + n - 1) |-> VariantAt(v)]
    /\ \E style \in StyleNames,
          versions \in {<<>>, <<<<ItemIdOf(1), VerDefault>>>>, <<<<ItemIdOf(1), VerOther>>>>} :
            selected = [style |-> style, versions |-> versions]
    /\ pal_list \in {<<>>, <<<<ItemIdOf(1), 0>>>>}
    /\ calls = <<>>
    /\ exported = <<>>
    /\ log = <<>>
    /\ PACK_CONFIG = <<>>
    /\ mtime = <<>>
    /\ packages = <<>>
    /\ all_obj = EmptyByType
    /\ obj_override = EmptyByType
    /\ id_to_obj = EmptyByType
    /\ data = EmptyByType
    /\ pos = <<0, 0>>
    /\ base = <<>>
    /\ b_style = None
    /\ pc = "export"
    /\ err = NoErr

NextItems == ItemExport

SpecItems == InitItems /\ [][NextItems]_vars

(***************************************************************************)
(* Properties of Item.export.                                              *)
(***************************************************************************)
\* C23: an export leaves the object graph as it was (the items, their
\* versions and all_conf, the variants and every object they hold), and an
\* export after an export returns what the first one returned.
C23_ExportKeepsGraph ==
    [][/\ heap' = heap
       /\ variants' = variants
       /\ objs' = objs
       /\ (pc = "exported" /\ pc' = "exported") => exported' = exported]_vars

\* An export has rewritten its copy of an editor block (the region is
\* expanded and the palette block is placed) while the variant's own block
\* still holds the region and no position.
C23_Witness ==
    /\ pc = "exported"
    /\ heap[variants[1].editor].occupied[1].name = "Volume"
    /\ heap[variants[1].editor].subtypes[1].palette.Position = <<>>
    /\ exported.editoritems[1].type = ItemIdOf(1)
    /\ Len(exported.editoritems[1].occupied) = 2
    /\ exported.editoritems[1].subtypes[1].palette.Position = <<0, 0, 0>>
    /\ exported.editoritems[2] = heap[variants[1].editor_extra]

\* The item with an id, and the version Item.export is to use for it.
ItemById(id) == objs["Item"][CHOOSE i \in DOMAIN objs["Item"] : objs["Item"][i].id = id]

VersionFor(id) ==
    IF HasKey(selected.versions, id) THEN Get(selected.versions, id) ELSE ItemById(id).def_ver

\* The selected style, its parent, its grandparent and so on.
SelectedChain ==
    objs["Style"][CHOOSE i \in DOMAIN objs["Style"] : objs["Style"][i].id = selected.style].bases

\* The configs of ItemConfigs in the exported config, in order.
AuxExported ==
    SelectSeq(exported.vbsp_config,
              LAMBDA c : /\ c \notin {"all_" \o ToString(k) : k \in 1..(MaxItems + 1)}
                         /\ c \notin {"conf_" \o ToString(v) : v \in 1..(MaxItems + 2)})

\* C27: for an item with an ItemConfig, the export appends the all_conf of
\* the ItemConfig and then, if the ItemConfig has the selected version, the
\* config of the first style of the selected style's chain that has one in
\* that version and of no other style; without such a style, or without
\* the version, it appends the all_conf only.
C27_FirstStyleConfig ==
    pc = "exported" =>
        \A c \in DOMAIN objs["ItemConfig"] :
            LET conf == objs["ItemConfig"][c]
                ver_id == SelectedVersion(selected.versions, conf.id)
                chain == SelectedChain
                with == IF HasKey(conf.versions, ver_id)
                        THEN {k \in DOMAIN chain : HasKey(Get(conf.versions, ver_id), chain[k])}
                        ELSE {}
            IN  IF with = {} THEN AuxExported = conf.all_conf
                ELSE \E k \in with :
                        /\ \A j \in with : k <= j
                        /\ AuxExported = conf.all_conf \o AuxStyleConf(ver_id, chain[k])

\* The selected style is Leaf and the config appended is that of Mid, the
\* nearer of the two ancestors that have one.
C27_Witness ==
    /\ pc = "exported"
    /\ selected.style = Leaf
    /\ AuxExported = <<"aux_all">> \o AuxStyleConf(VerDefault, Mid)
    /\ HasKey(Get(objs["ItemConfig"][1].versions, VerDefault), Root)

\* C29: an item the selection has no version for is exported with its
\* default version, the first version it declares, whatever the id of that
\* version: the export does not fail and the config of that version's
\* variant is in the exported config.
C29_DefaultVersionUsed ==
    /\ (pc = "failed" /\ err.kind = "KeyError") => HasKey(selected.versions, err.obj)
    /\ pc = "exported" =>
        \A i \in DOMAIN objs["Item"] :
            LET item == objs["Item"][i] IN
            ~HasKey(selected.versions, item.id) =>
                LET v == Get(Get(item.versions, item.def_ver).styles, selected.style)
                IN  \E n \in DOMAIN exported.vbsp_config :
                        <<exported.vbsp_config[n]>> = heap[variants[v].vbsp_config]

(***************************************************************************)
(* Package: the enabled flag and the staleness of a package, both kept in  *)
(* PACK_CONFIG, and clear_caches of the options window.  A package here    *)
(* holds its id and the class of its zip; calls holds the last call made.  *)
(* What clear_caches writes outside PACK_CONFIG (the games' mod_time and   *)
(* cache_time of the general options) is no state of the model.            *)
(***************************************************************************)
CLEAN_PACKAGE == "BEE2_CLEAN_STYLE"

\* The latest modification time of an archive, in half seconds.
MaxTime == 3

PackIds == {CLEAN_PACKAGE, "PAK_A"}

\* A section of PACK_CONFIG without options.
NoOptions == [Enabled |-> StrNone, ModTime |-> StrNone]

\* srctools.bool_as_int
bool_as_int(value) == IF value THEN "1" ELSE "0"

\* PACK_CONFIG.get_bool(section, option, default)
get_bool(section, option, default) ==
    IF PACK_CONFIG[section][option] = StrNone THEN default
    ELSE PACK_CONFIG[section][option] = "1"

\* PACK_CONFIG.get_int(section, option, default)
get_int(section, option, default) ==
    IF PACK_CONFIG[section][option] = StrNone THEN default
    ELSE CHOOSE n \in 0..MaxTime : ToString(n) = PACK_CONFIG[section][option]

\* int(os.stat(self.name).st_mtime): the whole seconds.
zip_modtime(pack) == mtime[pack.id] \div 2

\* Package.enabled
enabled(pack) ==
    IF pack.id = CLEAN_PACKAGE THEN TRUE
    ELSE get_bool(pack.id, "Enabled", TRUE)

\* Package.is_stale()
is_stale(pack) ==
    IF pack.zip = "FakeZip" THEN TRUE
    ELSE zip_modtime(pack) # get_int(pack.id, "ModTime", 0)

\* Mutant of Settable: every package can be switched.
SettableAny(pack) == TRUE

\* The guard of Package.set_enabled.
Settable(pack) == pack.id # CLEAN_PACKAGE

\* Mutant of ModTimeOf: st_mtime is stored as it is.
ModTimeOfRaw(pack) == IF pack.zip = "FakeZip" THEN "0" ELSE ToString(mtime[pack.id])

\* What Package.set_modtime() stores.
ModTimeOf(pack) == IF pack.zip = "FakeZip" THEN "0" ELSE ToString(zip_modtime(pack))

Call(method, self, value, raised) ==
    [method |-> method, self |-> self, value |-> value, raised |-> raised]

InitPackage ==
    /\ packages \in {ps \in [1..2 -> [id : PackIds, zip : {"ZipFile", "FakeZip"}]] :
                        ps[1].id = CLEAN_PACKAGE /\ ps[2].id # CLEAN_PACKAGE}
    /\ PACK_CONFIG = [id \in PackIds |-> NoOptions]
    /\ mtime \in [PackIds -> 0..MaxTime]
    /\ calls = <<>>
    /\ heap = <<>>
    /\ variants = <<>>
    /\ pal_list = <<>>
    /\ exported = <<>>
    /\ log = <<>>
    /\ selected = <<>>
    /\ all_obj = EmptyByType
    /\ obj_override = EmptyByType
    /\ objs = EmptyByType
    /\ id_to_obj = EmptyByType
    /\ data = EmptyByType
    /\ pos = <<0, 0>>
    /\ base = <<>>
    /\ b_style = None
    /\ pc = "packages"
    /\ err = NoErr

packFrame ==
    <<packages, all_obj, obj_override, objs, id_to_obj, data, pos, base, b_style, pc, err,
      heap, variants, pal_list, exported, log, selected>>

\* pack.enabled = value
SetEnabled ==
    /\ pc = "packages"
    /\ \E p \in DOMAIN packages, value \in BOOLEAN :
        IF Settable(packages[p])
        THEN /\ PACK_CONFIG' = [PACK_CONFIG EXCEPT
                                    ![packages[p].id].Enabled = bool_as_int(value)]
             /\ calls' = <<Call("set_enabled", p, value, "none")>>
        ELSE /\ calls' = <<Call("set_enabled", p, value, "ValueError")>>
             /\ UNCHANGED PACK_CONFIG
    /\ UNCHANGED <<packFrame, mtime>>

\* pack.set_modtime()
SetModtime ==
    /\ pc = "packages"
    /\ \E p \in DOMAIN packages :
        /\ PACK_CONFIG' = [PACK_CONFIG EXCEPT ![packages[p].id].ModTime = ModTimeOf(packages[p])]
        /\ calls' = <<Call("set_modtime", p, FALSE, "none")>>
    /\ UNCHANGED <<packFrame, mtime>>

\* clear_caches(): the user allows the restart or not.
ClearCaches ==
    /\ pc = "packages"
    /\ \E restart_ok \in BOOLEAN :
        /\ PACK_CONFIG' = IF restart_ok
                          THEN [id \in DOMAIN PACK_CONFIG |->
                                    [PACK_CONFIG[id] EXCEPT !.ModTime = "0"]]
                          ELSE PACK_CONFIG
        /\ calls' = <<Call("clear_caches", 0, restart_ok, "none")>>
    /\ UNCHANGED <<packFrame, mtime>>

\* The archive of a package is written: its modification time changes.
ModifyArchive ==
    /\ pc = "packages"
    /\ \E p \in DOMAIN packages, t \in 0..MaxTime :
        /\ t # mtime[packages[p].id]
        /\ mtime' = [mtime EXCEPT ![packages[p].id] = t]
        /\ calls' = <<Call("modify", p, FALSE, "none")>>
    /\ UNCHANGED <<packFrame, PACK_CONFIG>>

NextPackage == SetEnabled \/ SetModtime \/ ClearCaches \/ ModifyArchive

SpecPackage == InitPackage /\ [][NextPackage]_vars

(***************************************************************************)
(* Properties of Package.                                                  *)
(***************************************************************************)
\* The stored ModTime of a package as a number, 0 if there is none.
StoredModTime(p) ==
    LET stored == PACK_CONFIG[packages[p].id].ModTime
    IN  IF stored = StrNone THEN 0 ELSE CHOOSE n \in 0..MaxTime : ToString(n) = stored

\* The step is the call of a method on the package p.
Called(method, p) == calls' # <<>> /\ calls'[1].method = method /\ calls'[1].self = p

\* C24: a directory package is stale in every state, also right after
\* set_modtime(); a zip package is stale exactly when the stored ModTime is
\* not the modification time of the archive in whole seconds, so it is not
\* stale after set_modtime() and stays so unless the archive is written or
\* clear_caches resets the stored ModTime.
C24_Stale ==
    /\ [](\A p \in DOMAIN packages :
            IF packages[p].zip = "FakeZip" THEN is_stale(packages[p])
            ELSE is_stale(packages[p]) <=> (StoredModTime(p) # mtime[packages[p].id] \div 2))
    /\ [][\A p \in DOMAIN packages :
            packages[p].zip = "ZipFile" =>
                /\ Called("set_modtime", p) => ~is_stale(packages[p])'
                /\ (/\ ~is_stale(packages[p])
                    /\ ~Called("modify", p)
                    /\ ~(calls'[1].method = "clear_caches" /\ calls'[1].value))
                        => ~is_stale(packages[p])']_vars

\* set_modtime() was the last call on a zip package written in the second
\* half of a second and on no other: the zip package is not stale, and the
\* directory package whose ModTime was stored before is.
C24_Witness ==
    /\ calls # <<>> /\ calls[1].method = "set_modtime"
    /\ packages[calls[1].self].zip = "ZipFile"
    /\ mtime[packages[calls[1].self].id] = 3
    /\ ~is_stale(packages[calls[1].self])
    /\ \E p \in DOMAIN packages :
        /\ packages[p].zip = "FakeZip"
        /\ PACK_CONFIG[packages[p].id].ModTime = "0"
        /\ is_stale(packages[p])

\* C25: the package BEE2_CLEAN_STYLE is enabled in every state and setting
\* its flag, to either value, raises ValueError and leaves PACK_CONFIG as
\* it was; every other package is enabled at first, and then holds the
\* value last set.
C25_CleanAlwaysEnabled ==
    /\ \A p \in DOMAIN packages : enabled(packages[p])
    /\ [](\A p \in DOMAIN packages : packages[p].id = CLEAN_PACKAGE => enabled(packages[p]))
    /\ [][\A p \in DOMAIN packages :
            IF packages[p].id = CLEAN_PACKAGE
            THEN Called("set_enabled", p) =>
                    calls'[1].raised = "ValueError" /\ PACK_CONFIG' = PACK_CONFIG
            ELSE IF Called("set_enabled", p)
            THEN calls'[1].raised = "none" /\ enabled(packages[p])' = calls'[1].value
            ELSE enabled(packages[p])' = enabled(packages[p])]_vars

\* Setting the flag of BEE2_CLEAN_STYLE has just raised, and the other
\* package is disabled.
C25_Witness ==
    /\ calls # <<>> /\ calls[1].method = "set_enabled"
    /\ packages[calls[1].self].id = CLEAN_PACKAGE
    /\ calls[1].raised = "ValueError"
    /\ \E p \in DOMAIN packages : ~enabled(packages[p])

(***************************************************************************)
(* join_selitem_data on whole SelitemData tuples.  A field without a value *)
(* is StrNone, the sort key without a value is the empty string, as        *)
(* get_selitem_data leaves them; a description is the sequence of its      *)
(* blocks.                                                                 *)
(***************************************************************************)
SelitemData(name, short_name, auth, icon, large_icon, desc, group, sort_key) ==
    [name |-> name, short_name |-> short_name, auth |-> auth, icon |-> icon,
     large_icon |-> large_icon, desc |-> desc, group |-> group, sort_key |-> sort_key]

\* Python's 'a or b' on strings and None.
Or(a, b) == IF a = StrNone \/ a = "" THEN b ELSE a

\* join_selitem_data(our_data, over_data)
JoinSelitemData(our_data, over_data) ==
    SelitemData(join_selitem_data(our_data.name, over_data.name),
                our_data.short_name,
                our_data.auth \o over_data.auth,
                IF our_data.icon = StrNone THEN over_data.icon ELSE our_data.icon,
                IF our_data.large_icon = StrNone THEN over_data.large_icon
                ELSE our_data.large_icon,
                our_data.desc \o over_data.desc,
                Or(over_data.group, our_data.group),
                Or(over_data.sort_key, our_data.sort_key))

\* The SelitemData get_selitem_data returns for the blocks of one side: the
\* short name is the name if there is none.
SelitemChoices(side) ==
    {SelitemData(side \o "_name",
                 IF short THEN side \o "_short" ELSE side \o "_name",
                 IF auth THEN <<side \o "_auth">> ELSE <<>>,
                 IF icon THEN side \o "_icon" ELSE StrNone,
                 IF large THEN side \o "_large" ELSE StrNone,
                 IF desc THEN <<side \o "_desc">> ELSE <<>>,
                 IF group THEN side \o "_group" ELSE StrNone,
                 IF sort THEN side \o "_sort" ELSE "") :
        short \in BOOLEAN, auth \in BOOLEAN, icon \in BOOLEAN, large \in BOOLEAN,
        desc \in BOOLEAN, group \in BOOLEAN, sort \in BOOLEAN}

InitSelitem ==
    /\ \E our_data \in SelitemChoices("our"), over_data \in SelitemChoices("over") :
            calls = <<[our_data |-> our_data, over_data |-> over_data]>>
    /\ exported = <<>>
    /\ pc = "join"
    /\ heap = <<>>
    /\ variants = <<>>
    /\ pal_list = <<>>
    /\ log = <<>>
    /\ selected = <<>>
    /\ PACK_CONFIG = <<>>
    /\ mtime = <<>>
    /\ packages = <<>>
    /\ all_obj = EmptyByType
    /\ obj_override = EmptyByType
    /\ objs = EmptyByType
    /\ id_to_obj = EmptyByType
    /\ data = EmptyByType
    /\ pos = <<0, 0>>
    /\ base = <<>>
    /\ b_style = None
    /\ err = NoErr

\* An add_over joins the data of an object and of its override.
JoinSelitem ==
    /\ pc = "join"
    /\ pc' = "joined"
    /\ exported' = JoinSelitemData(calls[1].our_data, calls[1].over_data)
    /\ UNCHANGED <<loadVars, err, heap, variants, calls, pal_list, log, selected, packVars>>

NextSelitem == JoinSelitem

SpecSelitem == InitSelitem /\ [][NextSelitem]_vars

\* C26: every scalar field of the joined data (name, short name, icon,
\* large icon, group, sort key) is the override's value if the override
\* defines the field and the original's if not; the authors and the
\* descriptions of both sides are joined.
C26_OverrideWins ==
    pc = "joined" =>
        LET our == calls[1].our_data
            over == calls[1].over_data
            Pick(a, b) == IF b = StrNone \/ b = "" THEN a ELSE b
        IN  /\ exported.name = Pick(our.name, over.name)
            /\ exported.short_name = Pick(our.short_name, over.short_name)
            /\ exported.icon = Pick(our.icon, over.icon)
            /\ exported.large_icon = Pick(our.large_icon, over.large_icon)
            /\ exported.group = Pick(our.group, over.group)
            /\ exported.sort_key = Pick(our.sort_key, over.sort_key)
            /\ exported.auth = our.auth \o over.auth
            /\ exported.desc = our.desc \o over.desc

(***************************************************************************)
(* load_packages on packages with a 'Prerequisites' block.                 *)
(***************************************************************************)
\* The id of a package that is not in the packages directory.
PakMissing == <<80, 48>>

\* The 'Prerequisites' block of package k of n: empty, another package, a
\* package that is not there, or one of the music markers.
PrereqChoices(k, n) ==
    {<<>>, <<PakMissing>>, <<TAG_MUSIC>>, <<MEL_MUSIC>>}
    \cup {<<PakIdOf(j)>> : j \in (1..n) \ {k}}

\* The blocks of package k: the style A in the first package, an item and
\* an override of the style in the others.
PrereqBlocks(k) ==
    IF k = 1 THEN <<<<"obj", "Style", IdA>>>>
    ELSE <<<<"obj", "Item", IdA>>, <<"over", "Style", IdA>>>>

InitPrereq ==
    /\ \E en \in [1..MaxPaks -> BOOLEAN],
          pre \in [1..MaxPaks -> UNION {PrereqChoices(k, MaxPaks) : k \in 1..MaxPaks}] :
        /\ \A k \in 1..MaxPaks : pre[k] \in PrereqChoices(k, MaxPaks)
        /\ packages = [k \in 1..MaxPaks |->
                            [MakePackage(k, en[k], PrereqBlocks(k)) EXCEPT !.prereqs = pre[k]]]
    /\ \E tag \in BOOLEAN, mel \in BOOLEAN :
            calls = <<[has_tag_music |-> tag, has_mel_music |-> mel]>>
    /\ all_obj = EmptyByType
    /\ obj_override = EmptyByType
    /\ objs = EmptyByType
    /\ id_to_obj = EmptyByType
    /\ data = EmptyByType
    /\ pc = "scan"
    /\ pos = <<1, 0>>
    /\ base = <<>>
    /\ b_style = None
    /\ err = NoErr
    /\ heap = <<>>
    /\ variants = <<>>
    /\ pal_list = <<>>
    /\ exported = <<>>
    /\ log = <<>>
    /\ selected = <<>>
    /\ PACK_CONFIG = <<>>
    /\ mtime = <<>>

SpecPrereq == InitPrereq /\ [][NextLoad]_vars

(***************************************************************************)
(* Properties of the prerequisites.                                        *)
(***************************************************************************)
\* The packages that registered an object or queued an override.
Registering ==
    {k \in DOMAIN packages :
        \E t \in TypeSet :
            \/ \E i \in DOMAIN all_obj[t] : all_obj[t][i][2].pak_id = packages[k].id
            \/ \E i \in DOMAIN obj_override[t] :
                    \E j \in DOMAIN obj_override[t][i][2] :
                        obj_override[t][i][2][j].pak_id = packages[k].id}

\* The music a marker stands for was copied.
MusicMet(pre) == (pre = TAG_MUSIC /\ calls[1].has_tag_music) \/ (pre = MEL_MUSIC /\ calls[1].has_mel_music)

\* The packages of S whose prerequisites are packages of S, or music that
\* was copied.
MetIn(S) ==
    {k \in S : \A i \in DOMAIN packages[k].prereqs :
                    \/ MusicMet(packages[k].prereqs[i])
                    \/ \E j \in S : packages[j].id = packages[k].prereqs[i]}

RECURSIVE LoadedFrom(_)
LoadedFrom(S) == IF MetIn(S) = S THEN S ELSE LoadedFrom(MetIn(S))

\* The packages that are loaded: enabled, with every prerequisite loaded.
LoadedPackages == LoadedFrom({k \in DOMAIN packages : packages[k].enabled})

\* C30: only a package that is enabled and whose prerequisites are all
\* loaded packages (there, enabled, their own prerequisites met) registers
\* an object or queues an override.
C30_OnlyLoadedRegister == Registering \subseteq LoadedPackages

\* What parse_package checks: a package that registers an object or queues
\* an override is enabled, and its prerequisites are packages of the
\* packages directory, enabled or not, or music that was copied.
PresentPrereqsOnly ==
    \A k \in Registering :
        /\ packages[k].enabled
        /\ \A i \in DOMAIN packages[k].prereqs :
                \/ MusicMet(packages[k].prereqs[i])
                \/ \E j \in DOMAIN packages : packages[j].id = packages[k].prereqs[i]

(***************************************************************************)
(* setup_style_tree on the same styles and items, with the styles found in *)
(* two orders: load_packages runs, its items are kept aside, and it runs   *)
(* again on the package with the style blocks in the other order.          *)
(***************************************************************************)
\* Style entries of a version of the items loaded twice.
MaxOrderSlots == 2

\* What load_packages leaves in objs, id_to_obj and data for one package
\* without overrides.
LoadedObjs(pack) == [t \in TypeSet |-> Loaded(pack, t)]

LoadedIds(pack) ==
    [t \in TypeSet |-> [i \in DOMAIN Loaded(pack, t) |-> <<casefold(Loaded(pack, t)[i].id), i>>]]

LoadedData(pack) == [t \in TypeSet |-> [i \in DOMAIN Loaded(pack, t) |-> i]]

\* The style maps of the items loaded twice: every entry names a folder.
OrderStyleDecls(n) ==
    UNION {{[i \in 1..m |-> <<ks[i], SlotValue(ks[i], cs[i])>>] :
                ks \in DistinctSeqs(StyleNames, m),
                cs \in [1..m -> {c \in SlotChoices : c.kind = "folder"}]} :
           m \in 0..n}

\* The default version declares at least one style.
OrderItemDecls(n) ==
    {<<VersionDecl(VerDefault, s), VersionDecl(VerOther, t)>> :
        s \in OrderStyleDecls(n) \ {<<>>}, t \in OrderStyleDecls(n - 1)}

\* Root <- Mid <- Leaf, and Root <- Mid beside a Leaf without a base.
OrderHierarchies ==
    {<<StyleDecl(Root, None), StyleDecl(Mid, Root), StyleDecl(Leaf, Mid)>>,
     <<StyleDecl(Root, None), StyleDecl(Mid, Root), StyleDecl(Leaf, None)>>}

\* The same sequence in the order p.
Reordered(s, p) == [i \in DOMAIN s |-> s[p[i]]]

Orders(s) == {p \in [DOMAIN s -> DOMAIN s] : \A i, j \in DOMAIN s : p[i] = p[j] => i = j}

\* load_packages has loaded the package and calls setup_style_tree; calls
\* holds the package as it is found the second time.
InitOrder ==
    \E styles \in OrderHierarchies, versions \in OrderItemDecls(MaxOrderSlots) :
        \E p \in Orders(styles) :
            /\ packages = <<TreePackage(styles, versions)>>
            /\ calls = <<TreePackage(Reordered(styles, p), versions)>>
            /\ all_obj = parse_package(TreePackage(styles, versions), EmptyByType, EmptyByType).all_obj
            /\ obj_override = EmptyByType
            /\ objs = LoadedObjs(TreePackage(styles, versions))
            /\ id_to_obj = LoadedIds(TreePackage(styles, versions))
            /\ data = LoadedData(TreePackage(styles, versions))
            /\ pc = "tree"
            /\ pos = <<0, 0>>
            /\ base = <<>>
            /\ b_style = None
            /\ err = NoErr
            /\ heap = <<>>
            /\ variants = <<>>
            /\ pal_list = <<>>
            /\ exported = <<>>
            /\ log = <<>>
            /\ selected = <<>>
            /\ PACK_CONFIG = <<>>
            /\ mtime = <<>>

\* load_packages runs again: the items of the first run are kept in
\* exported, the registries are reset and the package is loaded with its
\* style blocks in the other order.
LoadAgain ==
    /\ pc = "done"
    /\ exported = <<>>
    /\ exported' = objs["Item"]
    /\ packages' = calls
    /\ all_obj' = parse_package(calls[1], EmptyByType, EmptyByType).all_obj
    /\ objs' = LoadedObjs(calls[1])
    /\ id_to_obj' = LoadedIds(calls[1])
    /\ data' = LoadedData(calls[1])
    /\ pc' = "tree"
    /\ pos' = <<0, 0>>
    /\ base' = <<>>
    /\ b_style' = None
    /\ UNCHANGED <<obj_override, err, heap, variants, calls, pal_list, log, selected, packVars>>

NextOrder == SetupStyleTree \/ WalkStep \/ FirstPass \/ SecondPass \/ LoadAgain

SpecOrder == InitOrder /\ [][NextOrder]_vars

(***************************************************************************)
(* Properties of the order of the styles.                                  *)
(***************************************************************************)
\* The slot of a style in a style map, whatever the position of its entry.
SlotOf(styles, sty) == IF HasKey(styles, sty) THEN Get(styles, sty) ELSE NoStyle

\* Both runs are over and neither failed.
BothRunsDone == pc = "done" /\ exported # <<>>

\* C28: the variant in a slot does not depend on the order in which the
\* styles are enumerated: after two runs of setup_style_tree on the same
\* items and the same hierarchy, every slot of every version of every item
\* holds the same variant in both runs.
C28_OrderIndependent ==
    BothRunsDone =>
        \A i \in DOMAIN exported : \A v \in DOMAIN exported[i].versions :
            \A s \in StyleNames :
                SlotOf(objs["Item"][i].versions[v].styles, s)
                    = SlotOf(exported[i].versions[v].styles, s)

\* The default version alone resolves the same way in both orders.
DefaultVersionOrderIndependent ==
    BothRunsDone =>
        \A i \in DOMAIN exported : \A s \in StyleNames :
            SlotOf(def_ver(objs["Item"][i]).styles, s) = SlotOf(def_ver(exported[i]).styles, s)

====
